---------------------------- MODULE Spec2Model ----------------------------
(***************************************************************************)
(* State-machine model of the mail retrieval / attachment pipeline of the  *)
(* ATS email server (services/emailService.js, services/firebaseService.js *)
(* as concatenated in src/services/firebaseService.js).                    *)
(*                                                                         *)
(* Text is modelled as a sequence of atoms.  An atom is a one-character    *)
(* string ("a", "7", "-") or, for the fixed MIME header keywords that the  *)
(* code searches for, one keyword string ("Content-Type:").  Part paths    *)
(* ("3.1") are modelled as the sequence of their indices (<<3, 1>>): the   *)
(* dotted rendering of a sequence of positive integers is injective.       *)
(***************************************************************************)
EXTENDS Integers, Sequences, FiniteSets, TLC

VARIABLES
    \* ---- listEmails / locate (attachment index) ----
    ixPc,          \* "init" | "listed" | "located"
    ixStruct,      \* attrs.struct of the message
    ixUid,         \* attrs.uid of the message
    ixSeqno,       \* sequence number the fetch reports for the message
    ixAtts,        \* email.attachments produced by listEmails
    ixPick,        \* index of the descriptor handed to the locator (0: none)
    ixFound        \* closure state of findAttachment after the walk

ixVars == <<ixPc, ixStruct, ixUid, ixSeqno, ixAtts, ixPick, ixFound>>

VARIABLES
    \* ---- candidates collection and addCandidateFromEmail calls ----
    stStore,       \* the documents of db.collection("candidates"), by id
    stCalls,       \* per call: position, candidateData, query result
    stClock,       \* the value new Date() returns next
    stStarted      \* number of calls started so far

stVars == <<stStore, stCalls, stClock, stStarted>>

VARIABLES
    \* ---- processEmails (one batch) ----
    baPhase,       \* "connect" | "openBox" | "tempDir" | "fetch" | "fetchDone"
    baImap,        \* "connecting" | "ready" | "ended": the IMAP session
    baTempDir,     \* "none" | "exists" | "removed"
    baMsgs,        \* per requested message: the body handler's position
    baNext,        \* next requested message the fetch will emit
    baProcessed,   \* processedEmails
    baCandidates,  \* candidates
    baOutcome      \* the promise: pending, resolved (with result), rejected

baVars == <<baPhase, baImap, baTempDir, baMsgs, baNext, baProcessed,
            baCandidates, baOutcome>>

VARIABLES
    \* ---- the extraction applied to one raw message ----
    exPc,          \* "raw" | "text" | "done"
    exInput,       \* what the sender attached and how it was encoded
    exTarget,      \* targetPart, the part the structure walk located
    exText,        \* messageText
    exContent      \* attachmentContent

exVars == <<exPc, exInput, exTarget, exText, exContent>>

VARIABLES
    \* ---- downloadEmailAttachment: one call ----
    dlPc,          \* which event of the session comes next
    dlImap,        \* "connecting" | "open" | "ended" | "errored"
    dlAttachmentId,\* the attachmentId argument
    dlStruct,      \* attrs.struct the server reported (<<>>: not reported)
    dlTarget,      \* targetUid, targetAttachmentIndex, attachmentFound,
                   \* targetPartId, targetPart
    dlRequests,    \* the options of every imap.fetch issued, in order
    dlBody,        \* the body stream of the full message and messageBuffer
    dlAttachmentData, \* attachmentData
    dlTimer,       \* the 500 ms timer: "off" | "armed" | "fired"
    dlOutcome      \* the promise downloadEmailAttachment returned

dlVars == <<dlPc, dlImap, dlAttachmentId, dlStruct, dlTarget, dlRequests,
            dlBody, dlAttachmentData, dlTimer, dlOutcome>>

VARIABLES
    \* ---- POST /parse and POST /parse-attachment: one request ----
    paPc,          \* "request" | "pdf" | "docx" | "txt" | "openai" | "done"
    paReq,         \* the route, path.extname(originalname) and mimetype
    paCalls,       \* the extraction libraries invoked, with what each gave
    paErrors,      \* errors of extractTextFromPDF
    paChain,       \* how extractTextFromPDF ended
    paText,        \* text, as handed to parseResumeWithOpenAI
    paRes          \* the response sent

paVars == <<paPc, paReq, paCalls, paErrors, paChain, paText, paRes>>

VARIABLES
    \* ---- one mailbox over two sessions: listEmails, then a later call ----
    mbPc,          \* "list" | "listed" | "open" | "processed" | "downloaded"
    mbBox,         \* the UIDs of the messages of INBOX, by sequence number
    mbEmails,      \* emails, as listEmails resolved with them
    mbPick,        \* which listed email the later call is given
    mbFetched      \* the messages the later call's fetch emitted

mbVars == <<mbPc, mbBox, mbEmails, mbPick, mbFetched>>

VARIABLES
    \* ---- listEmails: one call ----
    lsPc,          \* "connect" | "openBox" | "search" | "fetch" |
                   \* "fetchErrored" | "done" | "failed"
    lsImap,        \* "connecting" | "ready" | "ended": the IMAP session
    lsFilters,     \* filters.jobRelated, filters.withAttachments
    lsBox,         \* the messages of INBOX, by sequence number
    lsResults,     \* results of imap.search
    lsNext,        \* index in results of the message the fetch emits next
    lsMsgs,        \* per message: its events so far and its email object
    lsEmails,      \* emails: the messages pushed, as references into lsMsgs
    lsOutcome      \* the promise

lsVars == <<lsPc, lsImap, lsFilters, lsBox, lsResults, lsNext, lsMsgs,
            lsEmails, lsOutcome>>

VARIABLES
    \* ---- the search and the attachment walk of the two listEmails ----
    vaPc,          \* "search" | "attributes" | "done"
    vaIn,          \* which listEmails, its date filter, the clock, a message
    vaCriteria,    \* searchCriteria
    vaReturned,    \* whether the search gives the message
    vaAtts         \* attachments, as the attributes handler built them

vaVars == <<vaPc, vaIn, vaCriteria, vaReturned, vaAtts>>

VARIABLES
    \* ---- processAttachment: one call ----
    prPc,          \* "check" | "tempDir" | "write" | "read" | "post" |
                   \* "finally" | "returned" | "threw"
    prAttachment,  \* the attachment metadata passed in
    prTemp,        \* "none" | "dir" | "file" | "removed" | "left" | "dirLeft"
    prResponse,    \* what axios.post gave
    prPending,     \* the completion the finally block runs under
    prResult       \* the value the call returned

prVars == <<prPc, prAttachment, prTemp, prResponse, prPending, prResult>>

VARIABLES
    \* ---- POST /connect: one request ----
    coPc,          \* "request" | "connecting" | "answered"
    coBody,        \* req.body
    coConfig,      \* what the Imap object was constructed with, <<>> if none
    coImap,        \* "none" | "connecting" | "ended" | "errored"
    coOutcome,     \* the promise of validateConnection
    coStatus       \* the status of the response, 0 while there is none

coVars == <<coPc, coBody, coConfig, coImap, coOutcome, coStatus>>

VARIABLES
    \* ---- extractTextWithPdfParse: one call ----
    ppPc,          \* "default" | "fallback" | "returned" | "threw"
    ppFile,        \* what pdfParse makes of the file, per options
    ppCalls,       \* the options pdfParse was called with, in order
    ppResult       \* the text returned, or the message of the error thrown

ppVars == <<ppPc, ppFile, ppCalls, ppResult>>

vars == <<ixVars, stVars, baVars, exVars, dlVars, paVars, mbVars, lsVars,
          vaVars, prVars, coVars, ppVars>>

notIx == <<stVars, baVars, exVars, dlVars, paVars, mbVars, lsVars, vaVars,
          prVars, coVars, ppVars>>
notSt == <<ixVars, baVars, exVars, dlVars, paVars, mbVars, lsVars, vaVars,
          prVars, coVars, ppVars>>
notBa == <<ixVars, stVars, exVars, dlVars, paVars, mbVars, lsVars, vaVars,
          prVars, coVars, ppVars>>
notEx == <<ixVars, stVars, baVars, dlVars, paVars, mbVars, lsVars, vaVars,
          prVars, coVars, ppVars>>
notDl == <<ixVars, stVars, baVars, exVars, paVars, mbVars, lsVars, vaVars,
          prVars, coVars, ppVars>>
notPa == <<ixVars, stVars, baVars, exVars, dlVars, mbVars, lsVars, vaVars,
          prVars, coVars, ppVars>>
notMb == <<ixVars, stVars, baVars, exVars, dlVars, paVars, lsVars, vaVars,
          prVars, coVars, ppVars>>
notLs == <<ixVars, stVars, baVars, exVars, dlVars, paVars, mbVars, vaVars,
          prVars, coVars, ppVars>>
notVa == <<ixVars, stVars, baVars, exVars, dlVars, paVars, mbVars, lsVars,
          prVars, coVars, ppVars>>
notPr == <<ixVars, stVars, baVars, exVars, dlVars, paVars, mbVars, lsVars,
          vaVars, coVars, ppVars>>
notCo == <<ixVars, stVars, baVars, exVars, dlVars, paVars, mbVars, lsVars,
          vaVars, prVars, ppVars>>
notPp == <<ixVars, stVars, baVars, exVars, dlVars, paVars, mbVars, lsVars,
          vaVars, prVars, coVars>>

-----------------------------------------------------------------------------
(* Bounds of the model *)

\* largest number of leaf parts of an enumerated message structure
MaxLeaves == 3
\* deepest nesting of arrays below the top-level struct array
MaxDepth == 1
\* largest message uid that is enumerated
MaxUid == 11
\* number of addCandidateFromEmail calls of one behaviour
MaxImports == 2
\* number of email ids of one processEmails batch
MaxBatch == 2
\* largest number of resume attachments of one message
MaxResumes == 1
\* largest number of bytes of an enumerated attachment payload
MaxPayload == 3
\* largest number of parts of a message whose attachment is downloaded
MaxParts == 2
\* largest number of chunks the body stream of a message arrives in
MaxChunks == 2

\* largest UID of a message of the mailbox
MaxMailboxUid == 4
\* largest number of messages of the INBOX that is listed
MaxBox == 2

-----------------------------------------------------------------------------
(* Text helpers *)

Digits == <<"0", "1", "2", "3", "4", "5", "6", "7", "8", "9">>

IsDigit(c) == \E i \in 1..10 : Digits[i] = c

DigitVal(c) == (CHOOSE i \in 1..10 : Digits[i] = c) - 1

\* String(n) for a non-negative integer, as used by template literals
RECURSIVE ToDigits(_)
ToDigits(n) ==
    IF n < 10 THEN <<Digits[n + 1]>>
    ELSE ToDigits(n \div 10) \o <<Digits[(n % 10) + 1]>>

\* parseInt(s, 10) for a string of decimal digits
RECURSIVE ParseInt(_)
ParseInt(s) ==
    IF Len(s) = 0 THEN 0
    ELSE 10 * ParseInt(SubSeq(s, 1, Len(s) - 1)) + DigitVal(s[Len(s)])

\* String.prototype.indexOf: 0-based position of the first occurrence, -1 if none
IndexOfFrom(s, pat, from) ==
    LET hits == {p \in (from + 1)..(Len(s) - Len(pat) + 1) :
                    SubSeq(s, p, p + Len(pat) - 1) = pat}
    IN  IF hits = {} THEN -1
        ELSE (CHOOSE p \in hits : \A q \in hits : p <= q) - 1

IndexOf(s, pat) == IndexOfFrom(s, pat, 0)

\* String.prototype.includes
Includes(s, pat) == IndexOf(s, pat) # -1

\* String.prototype.toLowerCase on a string of characters
toLowerCase(s) ==
    LET upper == <<"A", "B", "C", "D", "F", "H", "J", "O", "P", "T", "V", "X">>
        lower == <<"a", "b", "c", "d", "f", "h", "j", "o", "p", "t", "v", "x">>
        low(c) == IF \E i \in 1..Len(upper) : upper[i] = c
                    THEN lower[CHOOSE i \in 1..Len(upper) : upper[i] = c]
                    ELSE c
    IN  [i \in 1..Len(s) |-> low(s[i])]

\* the test without the i flag
isResumeCaseSensitive(filename) ==
    \E p \in 1..Len(filename) :
        /\ filename[p] = "."
        /\ SubSeq(filename, p + 1, Len(filename)) \in
               {<<"p", "d", "f">>, <<"d", "o", "c">>, <<"d", "o", "c", "x">>,
                <<"r", "t", "f">>, <<"t", "x", "t">>, <<"o", "d", "t">>}

\* /\.(pdf|doc|docx|rtf|txt|odt)$/i.test(filename)
isResume(filename) == isResumeCaseSensitive(toLowerCase(filename))

\* length of the maximal run of digits of s starting at 1-based position p
RECURSIVE DigitRun(_, _)
DigitRun(s, p) ==
    IF p > Len(s) \/ ~IsDigit(s[p]) THEN 0 ELSE 1 + DigitRun(s, p + 1)

-----------------------------------------------------------------------------
(* Message structures (attrs.struct of node-imap): a part is an array of   *)
(* parts or a leaf object.                                                 *)

Arr(ps) == [isArray |-> TRUE, parts |-> ps]

Leaf(disp, name, type, subtype, enc, size) ==
    [isArray |-> FALSE, disposition |-> disp, name |-> name, type |-> type,
     subtype |-> subtype, encoding |-> enc, size |-> size]

\* a part without disposition has disposition "null"; a part without
\* params.name has the empty name
NoName == <<>>
CvPdf == <<"c", "v", ".", "P", "D", "F">>

LeafKinds ==
    { Leaf("attachment", CvPdf, "application", "pdf", "base64", 4),
      Leaf("INLINE", NoName, "image", "png", "base64", 4),
      Leaf("null", NoName, "text", "plain", "7bit", 2) }

\* String.prototype.toLowerCase on the disposition types that occur
ToLowerWord(w) ==
    CASE w = "INLINE" -> "inline"
      [] w = "Attachment" -> "attachment"
      [] w = "BASE64" -> "base64"
      [] OTHER -> w

\* sequences of parts with exactly n leaves in total and nesting depth <= d
RECURSIVE Forests(_, _)
Forests(n, d) ==
    IF n = 0 THEN {<<>>}
    ELSE UNION { LET firsts == IF k = 1 THEN LeafKinds ELSE {}
                     arrays == IF d = 0 THEN {}
                               ELSE {Arr(ps) : ps \in Forests(k, d - 1)}
                 IN  { <<t>> \o rest : t \in firsts \cup arrays,
                                       rest \in Forests(n - k, d) }
               : k \in 1..n }

Structs == UNION {Forests(n, MaxDepth) : n \in 1..MaxLeaves}

-----------------------------------------------------------------------------
(* listEmails: the attributes handler's walk over attrs.struct *)

\* part.disposition && ["attachment","inline"].includes(type.toLowerCase())
IsAttachmentDisposed(part) ==
    /\ part.disposition # "null"
    /\ ToLowerWord(part.disposition) \in {"attachment", "inline"}

AttPrefix == <<"a", "t", "t", "-">>
UnknownPrefix == <<"u", "n", "k", "n", "o", "w", "n", "-">>

\* `att-${email.uid || seqno}-${attachmentIndex}`
FormatAttachmentId(uid, seqno, attachmentIndex) ==
    AttPrefix \o ToDigits(IF uid # 0 THEN uid ELSE seqno) \o <<"-">>
        \o ToDigits(attachmentIndex)

\* parentPartId ? `${parentPartId}.${i + 1}` : `${i + 1}`
ChildPartId(parentPartId, i) == Append(parentPartId, i)

\* one descriptor pushed by traverse
Descriptor(part, uid, seqno, attachmentIndex, currentPartId) ==
    [id |-> FormatAttachmentId(uid, seqno, attachmentIndex),
     partId |-> currentPartId,
     name |-> IF part.name # NoName THEN part.name
              ELSE UnknownPrefix \o ToDigits(attachmentIndex),
     size |-> part.size,
     isResume |-> isResume(IF part.name # NoName THEN part.name
                           ELSE UnknownPrefix \o ToDigits(attachmentIndex)),
     encoding |-> part.encoding]

\* traverse(parts, parentPartId) from index i on; acc carries the closure
\* variables attachmentIndex and attachments
RECURSIVE traverse(_, _, _, _, _, _)
traverse(parts, i, parentPartId, uid, seqno, acc) ==
    IF i > Len(parts) THEN acc
    ELSE LET part == parts[i]
             currentPartId == ChildPartId(parentPartId, i)
             next ==
                 IF part.isArray
                 THEN traverse(part.parts, 1, currentPartId, uid, seqno, acc)
                 ELSE IF IsAttachmentDisposed(part)
                 THEN [attachmentIndex |-> acc.attachmentIndex + 1,
                       attachments |->
                           Append(acc.attachments,
                                  Descriptor(part, uid, seqno,
                                             acc.attachmentIndex + 1,
                                             currentPartId))]
                 ELSE acc
         IN  traverse(parts, i + 1, parentPartId, uid, seqno, next)

ListAttachments(struct, uid, seqno) ==
    traverse(struct, 1, <<>>, uid, seqno,
             [attachmentIndex |-> 0, attachments |-> <<>>]).attachments

-----------------------------------------------------------------------------
(* downloadEmailAttachment: parsing the id and locating the part *)

\* attachmentId.match(/att-(\d+)-(\d+)/): the leftmost position at which
\* "att-", a maximal run of digits, "-" and a second run of digits occur.
\* (\d+) is greedy and what follows it is not a digit, so backtracking to a
\* shorter run never yields a match the maximal run does not.
MatchesAt(s, p) ==
    LET r1 == DigitRun(s, p + 4)
        q == p + 4 + r1
    IN  /\ p + 3 <= Len(s)
        /\ SubSeq(s, p, p + 3) = AttPrefix
        /\ r1 >= 1
        /\ q <= Len(s)
        /\ s[q] = "-"
        /\ DigitRun(s, q + 1) >= 1

\* the parsed id: targetUid (0 stands for null: both fail `if (targetUid)`)
\* and targetAttachmentIndex (1 unless the id matches)
ParseAttachmentId(attachmentId) ==
    LET hits == {p \in 1..Len(attachmentId) : MatchesAt(attachmentId, p)}
    IN  IF hits = {}
        THEN [matched |-> FALSE, targetUid |-> 0, targetAttachmentIndex |-> 1]
        ELSE LET p == CHOOSE x \in hits : \A y \in hits : x <= y
                 r1 == DigitRun(attachmentId, p + 4)
                 q == p + 4 + r1
                 r2 == DigitRun(attachmentId, q + 1)
             IN  [matched |-> TRUE,
                  targetUid |-> ParseInt(SubSeq(attachmentId, p + 4, q - 1)),
                  targetAttachmentIndex |->
                      ParseInt(SubSeq(attachmentId, q + 1, q + r2))]

NotFoundYet ==
    [attachmentIndex |-> 0, attachmentFound |-> FALSE,
     targetPartId |-> <<>>, targetPart |-> Leaf("null", NoName, "", "", "", 0)]

\* findAttachment(parts, parentPartId) from index i on; acc carries the
\* closure variables attachmentIndex, attachmentFound, targetPartId, targetPart
RECURSIVE findAttachment(_, _, _, _, _)
findAttachment(parts, i, parentPartId, targetAttachmentIndex, acc) ==
    IF i > Len(parts) THEN acc
    ELSE LET part == parts[i]
             next ==
                 IF part.isArray
                 THEN findAttachment(part.parts, 1,
                                     ChildPartId(parentPartId, i),
                                     targetAttachmentIndex, acc)
                 ELSE IF IsAttachmentDisposed(part)
                 THEN LET attachmentIndex == acc.attachmentIndex + 1
                          currentPartId == ChildPartId(parentPartId, i)
                      IN  IF attachmentIndex = targetAttachmentIndex
                          THEN [attachmentIndex |-> attachmentIndex,
                                attachmentFound |-> TRUE,
                                targetPartId |-> currentPartId,
                                targetPart |-> part]
                          ELSE [acc EXCEPT !.attachmentIndex = attachmentIndex]
                 ELSE acc
         IN  findAttachment(parts, i + 1, parentPartId,
                            targetAttachmentIndex, next)

\* the walk with the ordinal taken as 0-based
LocateAttachmentZeroBased(struct, targetAttachmentIndex) ==
    findAttachment(struct, 1, <<>>, targetAttachmentIndex + 1, NotFoundYet)

LocateAttachment(struct, targetAttachmentIndex) ==
    findAttachment(struct, 1, <<>>, targetAttachmentIndex, NotFoundYet)

-----------------------------------------------------------------------------
(* The candidates collection and addCandidateFromEmail.  A document and a  *)
(* candidateData object are functions from field names to values; a field  *)
(* that is absent is outside the domain.                                   *)

\* the value of a property that is undefined
Undefined == "undefined"

\* JavaScript truthiness of a string-valued property
Truthy(v) == v \notin {Undefined, ""}

\* mailparser results that parseCandidateFromEmail is applied to
Emails ==
    [fromName : {"Ann", ""},
     fromAddress : {"a@x.com", "b@x.com", Undefined},
     subject : {"s1", "s2"},
     attachments : {<<>>, <<"cv.pdf">>, <<"pic.png">>}]

\* filename.toLowerCase().endsWith(".pdf" | ".doc" | ".docx" | ".txt")
IsResumeFile(filename) == filename \in {"cv.pdf", "cv.doc", "cv.docx", "cv.txt"}

\* {...a, ...b}: the fields of b, and those of a that b does not have
Spread(a, b) ==
    [f \in DOMAIN a \cup DOMAIN b |-> IF f \in DOMAIN b THEN b[f] ELSE a[f]]

parseCandidateFromEmail(email, now) ==
    LET base ==
            [name |-> IF Truthy(email.fromName) THEN email.fromName
                      ELSE "Unknown Candidate",
             email |-> email.fromAddress,
             source |-> "email_import",
             importDate |-> now,
             notes |-> <<"Imported from email with subject: ", email.subject>>,
             stageId |-> "",
             createdAt |-> now,
             updatedAt |-> now,
             history |-> << [date |-> now,
                             note |-> <<"Imported from email with subject: ",
                                        email.subject>>] >>]
        withResume ==
            IF Len(email.attachments) > 0
            THEN Spread(base, [hasResume |-> TRUE,
                               resumeFileName |-> email.attachments[1]])
            ELSE base
    IN  IF \E k \in 1..Len(email.attachments) :
               IsResumeFile(email.attachments[k])
        THEN Spread(withResume, [hasResumeAttachment |-> TRUE])
        ELSE withResume

\* a query that never matches, as if it compared a field no document has
FindByEmailNoMatch(store, email) == {}

\* collection("candidates").where("email", "==", email).limit(1).get():
\* the ids of the documents the query may return (one of those that match)
FindByEmail(store, email) ==
    {i \in 1..Len(store) : "email" \in DOMAIN store[i] /\ store[i].email = email}

\* the document is replaced by the argument, as set() would
UpdateDocReplaces(doc, candidateData, now) ==
    Spread(candidateData, [updatedAt |-> now])

\* existingDoc.ref.update({...candidateData, updatedAt}): every field of
\* the argument is written, the other fields of the document are kept
UpdateDoc(doc, candidateData, now) ==
    Spread(doc, Spread(candidateData, [updatedAt |-> now]))

\* collection("candidates").add({...candidateData, createdAt, updatedAt})
NewDoc(candidateData, now) ==
    Spread(candidateData, [createdAt |-> now, updatedAt |-> now])

CallIds == 1..MaxImports

IdleCall == [pc |-> "idle"]

StInit ==
    /\ stStore = <<>>
    /\ stCalls = [c \in CallIds |-> IdleCall]
    /\ stClock = 1
    /\ stStarted = 0

\* no addCandidateFromEmail call is between its start and its return
NoCallInFlight == \A c \in CallIds : stCalls[c].pc \in {"idle", "returned", "threw"}

\* the caller builds candidateData and calls addCandidateFromEmail
AcBegin(c, email) ==
    /\ stStarted < MaxImports
    /\ c = stStarted + 1
    /\ stCalls' = [stCalls EXCEPT ![c] =
                      [pc |-> "query",
                       candidateData |-> parseCandidateFromEmail(email, stClock)]]
    /\ stStarted' = stStarted + 1
    /\ stClock' = stClock + 1
    /\ UNCHANGED stStore
    /\ UNCHANGED notSt

\* a call made when no other call is in flight
AcStart(c, email) == NoCallInFlight /\ AcBegin(c, email)

\* if (candidateData.email) { querySnapshot = await ...get() }
AcQuery(c) ==
    /\ stCalls[c].pc = "query"
    /\ LET data == stCalls[c].candidateData
           hits == IF Truthy(data.email) THEN FindByEmail(stStore, data.email)
                   ELSE {}
       IN  \E found \in (IF hits = {} THEN {0} ELSE hits) :
               stCalls' = [stCalls EXCEPT ![c] =
                              [pc |-> "write", candidateData |-> data,
                               found |-> found]]
    /\ UNCHANGED <<stStore, stClock, stStarted>>
    /\ UNCHANGED notSt

\* the document an update call leaves at id `found`
WriteExisting(store, found, candidateData, now) ==
    [store EXCEPT ![found] = UpdateDoc(store[found], candidateData, now)]

\* !querySnapshot.empty: update the existing document; otherwise add one
AcWrite(c) ==
    /\ stCalls[c].pc = "write"
    /\ LET data == stCalls[c].candidateData
           found == stCalls[c].found
       IN  IF found # 0
           THEN /\ stStore' = WriteExisting(stStore, found, data, stClock)
                /\ stCalls' = [stCalls EXCEPT ![c] =
                                  [pc |-> "returned", candidateData |-> data,
                                   id |-> found, updated |-> TRUE,
                                   created |-> FALSE]]
           ELSE /\ stStore' = Append(stStore, NewDoc(data, stClock))
                /\ stCalls' = [stCalls EXCEPT ![c] =
                                  [pc |-> "returned", candidateData |-> data,
                                   id |-> Len(stStore) + 1, updated |-> FALSE,
                                   created |-> TRUE]]
    /\ stClock' = stClock + 1
    /\ UNCHANGED stStarted
    /\ UNCHANGED notSt

\* the query or the write fails: catch, then throw "Failed to add candidate"
AcThrow(c) ==
    /\ stCalls[c].pc \in {"query", "write"}
    /\ stCalls' = [stCalls EXCEPT ![c] =
                      [pc |-> "threw", candidateData |-> stCalls[c].candidateData]]
    /\ UNCHANGED <<stStore, stClock, stStarted>>
    /\ UNCHANGED notSt

StNext ==
    \/ \E c \in CallIds, email \in Emails : AcStart(c, email)
    \/ \E c \in CallIds : AcQuery(c)
    \/ \E c \in CallIds : AcWrite(c)
    \/ \E c \in CallIds : AcThrow(c)

\* the calls of the body handlers of one processEmails batch: a handler
\* awaits its call, the handlers of the other messages run meanwhile
StConcurrentNext ==
    \/ \E c \in CallIds, email \in Emails : AcBegin(c, email)
    \/ \E c \in CallIds : AcQuery(c)
    \/ \E c \in CallIds : AcWrite(c)
    \/ \E c \in CallIds : AcThrow(c)

-----------------------------------------------------------------------------
(* Specification SpecIndex: one message is listed, then one of its         *)
(* descriptors is handed back to the locator over the same structure.      *)

Seqnos == {1, 2}

IxInit ==
    /\ ixPc = "init"
    /\ ixStruct \in Structs
    /\ ixUid \in {1, MaxUid}
    /\ ixSeqno \in Seqnos
    /\ ixAtts = <<>>
    /\ ixPick = 0
    /\ ixFound = NotFoundYet

\* listEmails, msg.once("attributes")
IxList ==
    /\ ixPc = "init"
    /\ ixAtts' = ListAttachments(ixStruct, ixUid, ixSeqno)
    /\ ixPc' = "listed"
    /\ UNCHANGED <<ixStruct, ixUid, ixSeqno, ixPick, ixFound>>
    /\ UNCHANGED notIx

\* downloadEmailAttachment with the id of descriptor k, up to the end of
\* the structure walk
IxLocate(k) ==
    /\ ixPc = "listed"
    /\ k \in 1..Len(ixAtts)
    /\ LET parsed == ParseAttachmentId(ixAtts[k].id)
       IN  ixFound' = LocateAttachment(ixStruct, parsed.targetAttachmentIndex)
    /\ ixPick' = k
    /\ ixPc' = "located"
    /\ UNCHANGED <<ixStruct, ixUid, ixSeqno, ixAtts>>
    /\ UNCHANGED notIx

IxNext ==
    \/ IxList
    \/ \E k \in 1..MaxLeaves : IxLocate(k)

-----------------------------------------------------------------------------
(* Raw message text and transfer encodings *)

\* \s
IsSpace(a) == a \in {"CR", "LF", " ", "TAB"}

CRLF == <<"CR", "LF">>

\* \w: not white space, punctuation or a header keyword
IsWordAtom(a) ==
    /\ ~IsSpace(a)
    /\ a \notin
         {"-", "--", "=", "\"", ";", ":", ".", ",", "/", "+", "Content-Type:",
          "Content-Disposition:", "Content-Transfer-Encoding:", "boundary=",
          "application/pdf", "text/plain", "multipart/mixed", "U+00E9",
          "U+FFFD", "xC3", "xA9"}

\* String.prototype.trim
Trim(s) ==
    LET kept == {i \in 1..Len(s) : ~IsSpace(s[i])}
    IN  IF kept = {} THEN <<>>
        ELSE SubSeq(s, CHOOSE i \in kept : \A j \in kept : i <= j,
                    CHOOSE i \in kept : \A j \in kept : i >= j)

\* content.replace(/[\r\n\s]/g, "")
StripWhitespace(s) == SelectSeq(s, LAMBDA a : ~IsSpace(a))

\* String.prototype.substring(from) with a 0-based index
SubstringFrom(s, from) == SubSeq(s, from + 1, Len(s))

\* String.prototype.substring(0, to)
SubstringTo(s, to) == SubSeq(s, 1, to)

\* String.prototype.split(sep) for a non-empty separator
RECURSIVE Split(_, _)
Split(s, sep) ==
    LET k == IndexOf(s, sep)
    IN  IF k = -1 THEN <<s>>
        ELSE <<SubstringTo(s, k)>> \o Split(SubstringFrom(s, k + Len(sep)), sep)

\* length of the maximal run of atoms from 1-based position p on that
\* satisfy Test
RunLength(s, p, Test(_)) ==
    LET stops == {q \in p..(Len(s) + 1) : q = Len(s) + 1 \/ ~Test(s[q])}
    IN  (CHOOSE q \in stops : \A r \in stops : q <= r) - p

\* the bytes of one character in UTF-8 (Buffer.from(content))
Utf8Bytes(a) ==
    CASE a = "Q" -> <<81>>
      [] a = "U" -> <<85>>
      [] a = "," -> <<44>>
      [] a = " " -> <<32>>
      [] a = "CR" -> <<13>>
      [] a = "LF" -> <<10>>
      [] a = "=" -> <<61>>
      [] a = "U+00E9" -> <<195, 169>>
      [] a = "U+FFFD" -> <<239, 191, 189>>
      [] OTHER -> <<63>>

RECURSIVE BytesUtf8(_)
BytesUtf8(s) ==
    IF Len(s) = 0 THEN <<>> ELSE Utf8Bytes(s[1]) \o BytesUtf8(Tail(s))

\* Buffer.from(content, "binary"): the low eight bits of each code unit
BytesBinary(s) ==
    LET BinaryByte(a) ==
            CASE a = "U+00E9" -> 233
              [] a = "U+FFFD" -> 253
              [] OTHER -> Utf8Bytes(a)[1]
    IN  [i \in 1..Len(s) |-> BinaryByte(s[i])]

\* messageBuffer.toString(): UTF-8 decoding.  The bytes C3 A9 decode to
\* U+00E9; a lead byte without its continuation byte and a continuation
\* byte without its lead byte decode to U+FFFD each
Utf8Decode(raw) ==
    LET Continues(i) == i > 1 /\ raw[i] = "xA9" /\ raw[i - 1] = "xC3"
        Char(i) ==
            IF raw[i] = "xC3"
            THEN IF i < Len(raw) /\ raw[i + 1] = "xA9" THEN "U+00E9"
                 ELSE "U+FFFD"
            ELSE IF raw[i] = "xA9" THEN "U+FFFD"
            ELSE raw[i]
        kept == SelectSeq([i \in 1..Len(raw) |-> i], LAMBDA i : ~Continues(i))
    IN  [k \in 1..Len(kept) |-> Char(kept[k])]

Base64Alphabet ==
    <<"A", "B", "C", "D", "E", "F", "G", "H", "I", "J", "K", "L", "M", "N", "O",
      "P", "Q", "R", "S", "T", "U", "V", "W", "X", "Y", "Z", "a", "b", "c", "d",
      "e", "f", "g", "h", "i", "j", "k", "l", "m", "n", "o", "p", "q", "r", "s",
      "t", "u", "v", "w", "x", "y", "z", "0", "1", "2", "3", "4", "5", "6", "7",
      "8", "9", "+", "/">>

\* Buffer.prototype.toString("base64")
RECURSIVE Base64Encode(_)
Base64Encode(bytes) ==
    LET B64(v) == Base64Alphabet[v + 1]
    IN
    IF Len(bytes) = 0 THEN <<>>
    ELSE IF Len(bytes) = 1
    THEN <<B64(bytes[1] \div 4), B64((bytes[1] % 4) * 16), "=", "=">>
    ELSE IF Len(bytes) = 2
    THEN <<B64(bytes[1] \div 4),
           B64((bytes[1] % 4) * 16 + bytes[2] \div 16),
           B64((bytes[2] % 16) * 4), "=">>
    ELSE <<B64(bytes[1] \div 4),
           B64((bytes[1] % 4) * 16 + bytes[2] \div 16),
           B64((bytes[2] % 16) * 4 + bytes[3] \div 64),
           B64(bytes[3] % 64)>>
         \o Base64Encode(SubSeq(bytes, 4, Len(bytes)))

\* number of "=" at the end of the text
Padding(t) ==
    IF Len(t) >= 2 /\ t[Len(t)] = "=" /\ t[Len(t) - 1] = "=" THEN 2
    ELSE IF Len(t) >= 1 /\ t[Len(t)] = "=" THEN 1
    ELSE 0

\* RFC 4648 base64 text: groups of four alphabet characters, the last
\* group padded with at most two "="
IsValidBase64(t) ==
    /\ Len(t) % 4 = 0
    /\ \A i \in 1..(Len(t) - Padding(t)) :
           \E k \in 1..Len(Base64Alphabet) : Base64Alphabet[k] = t[i]

\* number of bytes that valid base64 text decodes to
DecodedLength(t) == 3 * (Len(t) \div 4) - Padding(t)

-----------------------------------------------------------------------------
(* downloadEmailAttachment: extracting the attachment from the raw text of *)
(* the full message.  An attachmentContent that is null and one that is    *)
(* the empty string are both <<>>: the code only tests its truthiness.     *)

Quote == "\""

\* messageText.match(/boundary="?([^"\s]+)"?/): the captured boundary, or
\* <<>> when there is no match
BoundaryOf(messageText) ==
    LET NotQuoteNorSpace(a) == a # Quote /\ ~IsSpace(a)
        Start(p) == IF p + 1 <= Len(messageText) /\ messageText[p + 1] = Quote
                    THEN p + 2 ELSE p + 1
        hits == {p \in 1..Len(messageText) :
                    /\ messageText[p] = "boundary="
                    /\ RunLength(messageText, Start(p), NotQuoteNorSpace) >= 1}
    IN  IF hits = {} THEN <<>>
        ELSE LET p == CHOOSE x \in hits : \A y \in hits : x <= y
             IN  SubSeq(messageText, Start(p),
                        Start(p) + RunLength(messageText, Start(p),
                                             NotQuoteNorSpace) - 1)

\* isAttachmentPart of the boundary scan
IsAttachmentPart(part, targetPart) ==
    LET FilenameEq == <<"file", "name", "=">>
        NameEq == <<"name", "=">>
        DotPdf == <<".", "p", "d", "f">>
    IN
    \/ /\ targetPart.name # NoName
       /\ \/ Includes(part, FilenameEq \o <<Quote>> \o targetPart.name
                                \o <<Quote>>)
          \/ Includes(part, FilenameEq \o targetPart.name)
          \/ Includes(part, NameEq \o <<Quote>> \o targetPart.name \o <<Quote>>)
          \/ Includes(part, NameEq \o targetPart.name)
    \/ /\ Includes(part, <<"Content-Type:", " ", "application/pdf">>)
       /\ ToLowerWord(targetPart.type) = "application"
       /\ ToLowerWord(targetPart.subtype) = "pdf"
    \/ /\ Includes(part, <<"Content-Disposition:", " ", "attachment">>)
       /\ Includes(part, DotPdf)

\* contentStartIndex: after the first blank line, -1 when there is none
ContentStartIndex(part) ==
    LET headerEndIndex == IndexOf(part, CRLF \o CRLF)
        altHeaderEndIndex == IndexOf(part, <<"LF", "LF">>)
    IN  IF headerEndIndex # -1 THEN headerEndIndex + 4
        ELSE IF altHeaderEndIndex # -1 THEN altHeaderEndIndex + 2
        ELSE -1

IsCteHeader(a) ==
    a \in {"Content-Transfer-Encoding:", "content-transfer-encoding:"}

LowerAll(s) == [i \in 1..Len(s) |-> ToLowerWord(s[i])]

\* part.match(/Content-Transfer-Encoding:\s*(\S+)/i), lower-cased; "base64"
\* when the part has no such header
SegmentEncoding(part) ==
    LET NotSpace(a) == ~IsSpace(a)
        ValueAt(p) == p + 1 + RunLength(part, p + 1, IsSpace)
        hits == {p \in 1..Len(part) :
                    /\ IsCteHeader(part[p])
                    /\ RunLength(part, ValueAt(p), NotSpace) >= 1}
    IN  IF hits = {} THEN <<"base64">>
        ELSE LET p == CHOOSE x \in hits : \A y \in hits : x <= y
             IN  LowerAll(SubSeq(part, ValueAt(p),
                                 ValueAt(p) + RunLength(part, ValueAt(p),
                                                        NotSpace) - 1))

\* the content of a matched segment: from the first blank line, cut at a
\* trailing boundary, trimmed
SegmentContent(part, boundary) ==
    LET content == SubstringFrom(part, ContentStartIndex(part))
        endBoundaryIndex == IndexOf(content, CRLF \o <<"--">> \o boundary)
    IN  Trim(IF endBoundaryIndex # -1 THEN SubstringTo(content, endBoundaryIndex)
             ELSE content)

\* the encoding normalisation of the boundary scan
NormalizeSegment(content, encoding) ==
    IF encoding = <<"base64">> THEN StripWhitespace(content)
    ELSE IF encoding = <<"7bit">> \/ encoding = <<"8bit">>
    THEN Base64Encode(BytesBinary(content))
    ELSE Base64Encode(BytesUtf8(content))

\* Method 1: the loop over messageText.split(`--${boundary}`) from part i
\* on; it stops at the first matching part that has a content start
RECURSIVE ScanParts(_, _, _, _)
ScanParts(parts, i, boundary, targetPart) ==
    IF i > Len(parts) THEN <<>>
    ELSE IF /\ IsAttachmentPart(parts[i], targetPart)
            /\ ContentStartIndex(parts[i]) # -1
    THEN NormalizeSegment(SegmentContent(parts[i], boundary),
                          SegmentEncoding(parts[i]))
    ELSE ScanParts(parts, i + 1, boundary, targetPart)

ExtractByBoundary(messageText, targetPart) ==
    LET boundary == BoundaryOf(messageText)
    IN  IF boundary = <<>> THEN <<>>
        ELSE ScanParts(Split(messageText, <<"--">> \o boundary), 1, boundary,
                       targetPart)

(* Method 2, the regular expression                                        *)
(*   Content-Type:[^\r\n]*\r?\n[^\r\n]*filename[="]NAME[^\r\n]*\r?\n       *)
(*   (?:[^\r\n]+\r?\n)*?Content-Transfer-Encoding:\s*(\w+)\r?\n            *)
(*   (?:[^\r\n]+\r?\n)*?\r?\n([\s\S]+?)(?:\r?\n--|$)                      *)
(* matched line by line.  A failed match is [ok |-> FALSE].                *)

NoMatch == [ok |-> FALSE]

\* length of \r?\n at 1-based position q, 0 when there is none
EolLength(s, q) ==
    IF q <= Len(s) /\ s[q] = "LF" THEN 1
    ELSE IF q + 1 <= Len(s) /\ s[q] = "CR" /\ s[q + 1] = "LF" THEN 2
    ELSE 0

\* position of the first \r or \n at or after p
LineEnd(s, p) ==
    LET NotEol(a) == a \notin {"CR", "LF"}
    IN  p + RunLength(s, p, NotEol)

\* ([\s\S]+?)(?:\r?\n--|$) from position b on: the shortest non-empty text
\* that is followed by a line break and "--" or by the end of the input
BodyEnd(s, b) ==
    LET ends == {e \in b..Len(s) :
                    \/ e = Len(s)
                    \/ /\ EolLength(s, e + 1) > 0
                       /\ e + EolLength(s, e + 1) + 1 <= Len(s)
                       /\ s[e + EolLength(s, e + 1) + 1] = "--"}
    IN  CHOOSE e \in ends : \A f \in ends : e <= f

\* (?:[^\r\n]+\r?\n)*?\r?\n([\s\S]+?)...: skip non-empty lines up to the
\* first empty line, the body follows it
RECURSIVE MatchBlankLine(_, _)
MatchBlankLine(s, h) ==
    IF EolLength(s, h) > 0
    THEN IF h + EolLength(s, h) <= Len(s)
         THEN [ok |-> TRUE,
               body |-> SubSeq(s, h + EolLength(s, h),
                               BodyEnd(s, h + EolLength(s, h)))]
         ELSE NoMatch
    ELSE IF LineEnd(s, h) > h /\ EolLength(s, LineEnd(s, h)) > 0
    THEN MatchBlankLine(s, LineEnd(s, h) + EolLength(s, LineEnd(s, h)))
    ELSE NoMatch

\* Content-Transfer-Encoding:\s*(\w+)\r?\n at position l, then the rest
MatchCteAt(s, l) ==
    LET w == l + 1 + RunLength(s, l + 1, IsSpace)
        r == RunLength(s, w, IsWordAtom)
    IN  IF /\ l <= Len(s)
           /\ IsCteHeader(s[l])
           /\ r >= 1
           /\ EolLength(s, w + r) > 0
        THEN LET rest == MatchBlankLine(s, w + r + EolLength(s, w + r))
             IN  IF rest.ok
                 THEN [ok |-> TRUE, body |-> rest.body,
                       encoding |-> LowerAll(SubSeq(s, w, w + r - 1))]
                 ELSE NoMatch
        ELSE NoMatch

\* (?:[^\r\n]+\r?\n)*?Content-Transfer-Encoding:...: the header is tried at
\* each line start, skipping non-empty lines only
RECURSIVE MatchCteFrom(_, _)
MatchCteFrom(s, l) ==
    IF MatchCteAt(s, l).ok THEN MatchCteAt(s, l)
    ELSE IF LineEnd(s, l) > l /\ EolLength(s, LineEnd(s, l)) > 0
    THEN MatchCteFrom(s, LineEnd(s, l) + EolLength(s, LineEnd(s, l)))
    ELSE NoMatch

\* the whole expression with "Content-Type:" at position p
MatchAttachmentRegexAt(s, p, name) ==
    LET e1 == LineEnd(s, p + 1)
        l2 == e1 + EolLength(s, e1)
        e2 == LineEnd(s, l2)
        line2 == SubSeq(s, l2, e2 - 1)
    IN  IF /\ s[p] = "Content-Type:"
           /\ EolLength(s, e1) > 0
           /\ \/ Includes(line2, <<"file", "name", "=">> \o name)
              \/ Includes(line2, <<"file", "name", Quote>> \o name)
           /\ EolLength(s, e2) > 0
        THEN MatchCteFrom(s, e2 + EolLength(s, e2))
        ELSE NoMatch

\* messageText.match(attachmentRegex): the leftmost match
MatchAttachmentRegex(s, name) ==
    LET hits == {p \in 1..Len(s) : MatchAttachmentRegexAt(s, p, name).ok}
    IN  IF hits = {} THEN NoMatch
        ELSE MatchAttachmentRegexAt(s, CHOOSE p \in hits : \A q \in hits : p <= q,
                                    name)

\* Method 2: base64 content is stripped of white space, any other encoding
\* is read as binary and encoded
ExtractByRegex(messageText, targetPart) ==
    LET match == MatchAttachmentRegex(messageText, targetPart.name)
    IN  IF ~match.ok THEN <<>>
        ELSE IF match.encoding = <<"base64">> THEN StripWhitespace(match.body)
        ELSE Base64Encode(BytesBinary(match.body))

\* attachmentContent after both methods
ExtractContent(messageText, targetPart) ==
    LET byBoundary == ExtractByBoundary(messageText, targetPart)
    IN  IF byBoundary = <<>> /\ targetPart.name # NoName
        THEN ExtractByRegex(messageText, targetPart)
        ELSE byBoundary

-----------------------------------------------------------------------------
(* The raw messages the server sends: a multipart/mixed message with a     *)
(* text part and one attachment part, or a message that is the attachment  *)
(* alone.  The sender encodes the payload as the part's header declares.   *)

PayloadBytes == {"Q", ",", " ", "xC3", "xA9"}

Payloads == UNION {[1..n -> PayloadBytes] : n \in 1..MaxPayload}

\* the declared transfer encodings; "absent": no header (7bit by default)
Encodings == {"base64", "BASE64", "7bit", "8bit", "quoted-printable", "absent"}

EncodingAtoms(enc) ==
    IF enc = "quoted-printable" THEN <<"quoted", "-", "printable">> ELSE <<enc>>

\* the payloads a sender may label with the encoding
WellFormed(payload, enc) ==
    CASE enc \in {"7bit", "absent"} ->
             \A i \in 1..Len(payload) : payload[i] \in {"Q", ",", " "}
      [] enc = "quoted-printable" ->
             \A i \in 1..Len(payload) : payload[i] \in {"Q", ","}
      [] OTHER -> TRUE

\* the bytes of the payload as the sender attached them
RawBytes(payload) ==
    LET RawByte(a) ==
            CASE a = "xC3" -> 195
              [] a = "xA9" -> 169
              [] OTHER -> Utf8Bytes(a)[1]
    IN  [i \in 1..Len(payload) |-> RawByte(payload[i])]

\* base64 text with a line break after every group of four characters
RECURSIVE Fold(_)
Fold(t) ==
    IF Len(t) <= 4 THEN t
    ELSE SubSeq(t, 1, 4) \o CRLF \o Fold(SubSeq(t, 5, Len(t)))

EncodeBody(payload, enc, folded) ==
    IF enc \in {"base64", "BASE64"}
    THEN IF folded THEN Fold(Base64Encode(RawBytes(payload)))
         ELSE Base64Encode(RawBytes(payload))
    ELSE payload

Param(name, quoted) == IF quoted THEN <<Quote>> \o name \o <<Quote>> ELSE name

\* header lines and body of the attachment part
AttachmentEntity(in) ==
    <<"Content-Type:", " ", "application/pdf", ";", " ", "name", "=">>
        \o Param(in.name, in.quoted) \o CRLF
    \o <<"Content-Disposition:", " ", "attachment", ";", " ", "file", "name",
          "=">> \o Param(in.name, in.quoted) \o CRLF
    \o (IF in.encoding = "absent" THEN <<>>
        ELSE <<"Content-Transfer-Encoding:", " ">>
                 \o EncodingAtoms(in.encoding) \o CRLF)
    \o CRLF
    \o EncodeBody(in.payload, in.encoding, in.folded)

TextEntity ==
    <<"Content-Type:", " ", "text/plain">> \o CRLF \o CRLF \o <<"Q", "U">>

\* an inline image without a name parameter
InlineEntity ==
    <<"Content-Type:", " ", "image/png">> \o CRLF
    \o <<"Content-Disposition:", " ", "inline">> \o CRLF
    \o <<"Content-Transfer-Encoding:", " ", "base64">> \o CRLF
    \o CRLF
    \o <<"U", "Q", "=", "=">>

\* the entities between delimiter lines, from entity i on
RECURSIVE Body(_, _)
Body(entities, i) ==
    LET Delimiter == <<"--", "XYZ">>
    IN  IF i > Len(entities) THEN Delimiter \o <<"--">> \o CRLF
        ELSE Delimiter \o CRLF \o entities[i] \o CRLF
                 \o Body(entities, i + 1)

Multipart(entities) ==
    <<"Content-Type:", " ", "multipart/mixed", ";", " ", "boundary=",
      Quote, "XYZ", Quote>> \o CRLF \o CRLF \o Body(entities, 1)

\* in.before: the attachments that precede the one asked for
RawMessage(in) ==
    IF in.multipart
    THEN Multipart(<<TextEntity>>
                       \o [i \in 1..Len(in.before) |->
                              AttachmentEntity(in.before[i])]
                       \o <<AttachmentEntity(in)>>)
    ELSE AttachmentEntity(in)

Inputs ==
    {in \in [payload : Payloads, encoding : Encodings, folded : BOOLEAN,
             quoted : BOOLEAN, multipart : BOOLEAN, name : {CvPdf},
             before : {<<>>}] :
        /\ WellFormed(in.payload, in.encoding)
        /\ in.folded => in.encoding \in {"base64", "BASE64"}}

\* messages with two attachments whose bodies differ; the second one is
\* asked for
SeveralInputs ==
    LET Earlier ==
            [payload : {<<"Q", "Q", "Q", "Q">>}, encoding : {"base64"},
             folded : {FALSE}, quoted : BOOLEAN,
             name : {<<"a", ".", "p", "d", "f">>, <<"a", ".", "o", "d", "t">>}]
    IN  {in \in [payload : Payloads, encoding : {"base64"},
                 folded : BOOLEAN, quoted : BOOLEAN, multipart : {TRUE},
                 name : {CvPdf}, before : {<<e>> : e \in Earlier}] :
            Len(in.payload) <= 2}

\* the part findAttachment located for the attachment of the message
TargetParts ==
    { Leaf("attachment", CvPdf, "application", "pdf", "base64", 4),
      Leaf("attachment", NoName, "APPLICATION", "PDF", "base64", 4) }

ExInit ==
    /\ exPc = "raw"
    /\ exInput \in Inputs
    /\ exTarget \in TargetParts
    /\ exText = <<>>
    /\ exContent = <<>>

ExSeveralInit ==
    /\ exPc = "raw"
    /\ exInput \in SeveralInputs
    /\ exTarget \in TargetParts
    /\ exText = <<>>
    /\ exContent = <<>>

\* stream.on("end"): messageText = messageBuffer.toString()
ExToString ==
    /\ exPc = "raw"
    /\ exText' = Utf8Decode(RawMessage(exInput))
    /\ exPc' = "text"
    /\ UNCHANGED <<exInput, exTarget, exContent>>
    /\ UNCHANGED notEx

\* Method 1 and Method 2
ExExtract ==
    /\ exPc = "text"
    /\ exContent' = ExtractContent(exText, exTarget)
    /\ exPc' = "done"
    /\ UNCHANGED <<exInput, exTarget, exText>>
    /\ UNCHANGED notEx

ExNext ==
    \/ ExToString
    \/ ExExtract

-----------------------------------------------------------------------------
(* processEmails: one batch.  The fetch emits a message event per message  *)
(* that exists, each body event starts an async handler that runs on its   *)
(* own from await to await, and the fetch emits end when the server has    *)
(* streamed the last message.                                              *)

MsgIds == 1..MaxBatch

Pending == [kind |-> "pending"]

\* a promise that took its latest settlement
SettleOverwrites(outcome, value) == value

\* the promise settles once: resolve and reject after that change nothing
Settle(outcome, value) == IF outcome.kind = "pending" THEN value ELSE outcome

BaInit ==
    /\ baPhase = "connect"
    /\ baImap = "connecting"
    /\ baTempDir = "none"
    /\ baMsgs \in [MsgIds -> [pc : {"unfetched", "absent"},
                               resumes : 0..MaxResumes,
                               candidateData : {<<>>}]]
    /\ baNext = 1
    /\ baProcessed = <<>>
    /\ baCandidates = <<>>
    /\ baOutcome = Pending

\* a batch whose messages have two resume attachments each
BaSeveralInit ==
    /\ baPhase = "connect"
    /\ baImap = "connecting"
    /\ baTempDir = "none"
    /\ baMsgs \in [MsgIds -> [pc : {"unfetched", "absent"},
                               resumes : {2},
                               candidateData : {<<>>}]]
    /\ baNext = 1
    /\ baProcessed = <<>>
    /\ baCandidates = <<>>
    /\ baOutcome = Pending

\* imap.once("ready"): openBox is requested
BaReady ==
    /\ baPhase = "connect"
    /\ baImap = "connecting"
    /\ baImap' = "ready"
    /\ baPhase' = "openBox"
    /\ UNCHANGED <<baTempDir, baMsgs, baNext, baProcessed, baCandidates,
                   baOutcome>>
    /\ UNCHANGED notBa

\* imap.once("error"): reject(err), nothing else
BaImapError ==
    /\ baImap # "ended"
    /\ baPhase # "fetchDone"
    /\ baOutcome.kind = "pending"
    /\ baOutcome' = [kind |-> "rejected", error |-> "connection"]
    /\ UNCHANGED <<baPhase, baImap, baTempDir, baMsgs, baNext, baProcessed,
                   baCandidates>>
    /\ UNCHANGED notBa

\* openBox callback with err: imap.end(); reject(err)
BaOpenBoxError ==
    /\ baPhase = "openBox"
    /\ baImap' = "ended"
    /\ baPhase' = "fetchDone"
    /\ baOutcome' = Settle(baOutcome, [kind |-> "rejected", error |-> "openBox"])
    /\ UNCHANGED <<baTempDir, baMsgs, baNext, baProcessed, baCandidates>>
    /\ UNCHANGED notBa

\* openBox callback without err, emailIds not empty: await createTempDir()
BaOpenBox ==
    /\ baPhase = "openBox"
    /\ baPhase' = "tempDir"
    /\ UNCHANGED <<baImap, baTempDir, baMsgs, baNext, baProcessed,
                   baCandidates, baOutcome>>
    /\ UNCHANGED notBa

\* createTempDir failed: imap.end(); reject
BaTempDirError ==
    /\ baPhase = "tempDir"
    /\ baImap' = "ended"
    /\ baPhase' = "fetchDone"
    /\ baOutcome' = Settle(baOutcome, [kind |-> "rejected", error |-> "tempDir"])
    /\ UNCHANGED <<baTempDir, baMsgs, baNext, baProcessed, baCandidates>>
    /\ UNCHANGED notBa

\* createTempDir succeeded: imap.fetch(numericIds, {bodies: "", struct})
BaFetch ==
    /\ baPhase = "tempDir"
    /\ baTempDir' = "exists"
    /\ baPhase' = "fetch"
    /\ UNCHANGED <<baImap, baMsgs, baNext, baProcessed, baCandidates,
                   baOutcome>>
    /\ UNCHANGED notBa

\* fetch.on("message") and msg.on("body") for the next message that exists:
\* the handler runs up to `await simpleParser(stream)`
BaMessage ==
    /\ baPhase = "fetch"
    /\ baNext <= MaxBatch
    /\ baMsgs' = [baMsgs EXCEPT ![baNext].pc =
                      IF @ = "absent" THEN "absent" ELSE "parsing"]
    /\ baNext' = baNext + 1
    /\ UNCHANGED <<baPhase, baImap, baTempDir, baProcessed, baCandidates,
                   baOutcome>>
    /\ UNCHANGED notBa

\* the senders simpleParser reports: one with a name and an address, one
\* with neither
BaSenders ==
    { [fromName |-> "Ann", fromAddress |-> "a@x.com"],
      [fromName |-> "", fromAddress |-> Undefined] }

\* the parsed message of a sender with the given number of resume files
ParsedEmail(sender, resumes) ==
    [fromName |-> sender.fromName, fromAddress |-> sender.fromAddress,
     subject |-> "s1", attachments |-> [k \in 1..resumes |-> "cv.pdf"]]

\* the message is not recorded
PushProcessedSkipped(processedEmails, seqno) == processedEmails

\* processedEmails.push(seqno)
PushProcessed(processedEmails, seqno) == Append(processedEmails, seqno)

\* simpleParser resolved: processedEmails.push(seqno), parseCandidateFromEmail
BaParsed(m) ==
    /\ baMsgs[m].pc = "parsing"
    /\ baProcessed' = PushProcessed(baProcessed, m)
    /\ \E sender \in BaSenders :
           baMsgs' = [baMsgs EXCEPT
               ![m].pc = IF baMsgs[m].resumes > 0 THEN "attachments"
                         ELSE "storing",
               ![m].candidateData =
                   parseCandidateFromEmail(
                       ParsedEmail(sender, baMsgs[m].resumes),
                       Len(baProcessed) + 1)]
    /\ UNCHANGED <<baPhase, baImap, baTempDir, baNext, baCandidates, baOutcome>>
    /\ UNCHANGED notBa

\* simpleParser rejected: the outer catch logs the error
BaParseFailed(m) ==
    /\ baMsgs[m].pc = "parsing"
    /\ baMsgs' = [baMsgs EXCEPT ![m].pc = "failed"]
    /\ UNCHANGED <<baPhase, baImap, baTempDir, baNext, baProcessed,
                   baCandidates, baOutcome>>
    /\ UNCHANGED notBa

\* the whole fallback record of processAttachment is merged in, its name
\* and email included
AfterAttachmentMergesAll(candidateData, result) ==
    CASE result = "threw" -> candidateData
      [] result = "parsed" ->
             Spread(candidateData,
                    [skills |-> "parsed", experience |-> "parsed",
                     education |-> "parsed", resumeText |-> "parsed"])
      [] result = "basic" ->
             Spread(candidateData,
                    [name |-> "cv.pdf", email |-> "", skills |-> "",
                     experience |-> "", education |-> "", resumeText |-> ""])

\* candidateData after one turn of the resume-attachment loop:
\*   "threw"  fs.writeFile or a later call threw: the inner catch logs it
\*   "parsed" processAttachment returned the parse API's data
\*   "basic"  processAttachment returned its fallback record, which has none
\*            of the four fields: Object.assign writes [], "", "", ""
AfterAttachment(candidateData, result) ==
    CASE result = "threw" -> candidateData
      [] result = "parsed" ->
             Spread(candidateData,
                    [skills |-> "parsed", experience |-> "parsed",
                     education |-> "parsed", resumeText |-> "parsed"])
      [] result = "basic" ->
             Spread(candidateData,
                    [skills |-> "", experience |-> "", education |-> "",
                     resumeText |-> ""])

\* one turn of `for (const attachment of email.attachments)` for a resume
BaAttachment(m, result) ==
    /\ baMsgs[m].pc = "attachments"
    /\ result = "parsed" => baTempDir \in {"exists", "removalFailed"}
    /\ result = "basic" => baTempDir \in {"exists", "removalFailed"}
    /\ baMsgs' = [baMsgs EXCEPT
                      ![m].candidateData = AfterAttachment(@, result),
                      ![m].resumes = @ - 1,
                      ![m].pc = IF baMsgs[m].resumes = 1 THEN "storing"
                                ELSE "attachments"]
    /\ UNCHANGED <<baPhase, baImap, baTempDir, baNext, baProcessed,
                   baCandidates, baOutcome>>
    /\ UNCHANGED notBa

\* await addCandidateFromEmail(candidateData) returned:
\* candidates.push({...candidateData, id: result.id}); the store's ids are
\* opaque, the one returned for message m is written m
BaStored(m) ==
    /\ baMsgs[m].pc = "storing"
    /\ baCandidates' = Append(baCandidates,
                              Spread(baMsgs[m].candidateData, [id |-> m]))
    /\ baMsgs' = [baMsgs EXCEPT ![m].pc = "done"]
    /\ UNCHANGED <<baPhase, baImap, baTempDir, baNext, baProcessed, baOutcome>>
    /\ UNCHANGED notBa

\* addCandidateFromEmail threw: the dbError catch logs it
BaStoreFailed(m) ==
    /\ baMsgs[m].pc = "storing"
    /\ baMsgs' = [baMsgs EXCEPT ![m].pc = "failed"]
    /\ UNCHANGED <<baPhase, baImap, baTempDir, baNext, baProcessed,
                   baCandidates, baOutcome>>
    /\ UNCHANGED notBa

\* fetch.once("error"): imap.end(); reject(err)
BaFetchError ==
    /\ baPhase = "fetch"
    /\ baImap' = "ended"
    /\ baOutcome' = Settle(baOutcome, [kind |-> "rejected", error |-> "fetch"])
    /\ baPhase' = "fetchDone"
    /\ UNCHANGED <<baTempDir, baMsgs, baNext, baProcessed, baCandidates>>
    /\ UNCHANGED notBa

\* the value resolve() is called with at the fetch's end event
BatchResult(processedEmails, candidates) ==
    [kind |-> "resolved", processed |-> Len(processedEmails),
     candidates |-> candidates]

\* fetch.once("end"), after the last message was emitted: fs.rmdir(tempDir),
\* whose failure is logged, imap.end(), resolve({processed, candidates})
BaFetchEnd ==
    /\ baPhase = "fetch"
    /\ baNext > MaxBatch
    /\ baTempDir' \in {"removed", "removalFailed"}
    /\ baImap' = "ended"
    /\ baOutcome' = Settle(baOutcome, BatchResult(baProcessed, baCandidates))
    /\ baPhase' = "fetchDone"
    /\ UNCHANGED <<baMsgs, baNext, baProcessed, baCandidates>>
    /\ UNCHANGED notBa

BaNext ==
    \/ BaReady
    \/ BaImapError
    \/ BaOpenBoxError
    \/ BaOpenBox
    \/ BaTempDirError
    \/ BaFetch
    \/ BaMessage
    \/ \E m \in MsgIds : BaParsed(m)
    \/ \E m \in MsgIds : BaParseFailed(m)
    \/ \E m \in MsgIds, r \in {"threw", "parsed", "basic"} : BaAttachment(m, r)
    \/ \E m \in MsgIds : BaStored(m)
    \/ \E m \in MsgIds : BaStoreFailed(m)
    \/ BaFetchError
    \/ BaFetchEnd

-----------------------------------------------------------------------------
(* downloadEmailAttachment: one call.  The session connects, opens INBOX,  *)
(* fetches the structure of message targetUid, walks it for the ordinal,   *)
(* and when the structure fetch ends with the part located fetches the     *)
(* whole message, extracts the content from its text and settles the       *)
(* promise from a timer started by the end of the full fetch.              *)

\* the errors the promise is rejected with
DlError(message, attachmentId) ==
    [message |-> message, attachmentId |-> attachmentId]

\* new Error("Invalid attachment ID format")
InvalidIdError == DlError("Invalid attachment ID format", <<>>)

\* new Error(`Attachment ${attachmentId} not found`)
NotFoundError(attachmentId) == DlError("Attachment not found", attachmentId)

\* new Error("Failed to extract attachment content")
ExtractionError == DlError("Failed to extract attachment content", <<>>)

\* the err a callback or an error event of the imap library passes on
ServerError(what) == DlError(what, <<>>)

Rejected(error) == [kind |-> "rejected", error |-> error]

Resolved(value) == [kind |-> "resolved", value |-> value]

\* the uid of the message the mailbox holds
MailboxUid == 7

\* the attachmentId arguments: a token `att-${uid}-${ordinal}` alone or with
\* extra characters around it, for the uid of the message and for uid 0,
\* and strings that hold no token
AttachmentIds ==
    LET IdText(uid, ordinal) ==
            AttPrefix \o ToDigits(uid) \o <<"-">> \o ToDigits(ordinal)
    IN  { pre \o IdText(uid, k) \o suf :
              pre \in {<<>>, <<"x">>}, suf \in {<<>>, <<"y">>},
              uid \in {0, MailboxUid}, k \in 0..(MaxParts + 1) }
        \cup { <<>>,
               AttPrefix \o <<"7">>,
               AttPrefix \o <<"7", "-">>,
               <<"7", "-", "1">>,
               <<"A", "T", "T", "-", "7", "-", "1">> }

\* attrs.struct of the message: its parts in one array, or each part in an
\* array of its own
DlStructs ==
    LET FlatStructs == UNION {[1..n -> LeafKinds] : n \in 1..MaxParts}
        EachNested(s) == [i \in 1..Len(s) |-> Arr(<<s[i]>>)]
    IN  FlatStructs \cup {EachNested(s) : s \in FlatStructs}

\* the leaf parts of a structure in document order
RECURSIVE Leaves(_)
Leaves(parts) ==
    IF Len(parts) = 0 THEN <<>>
    ELSE (IF Head(parts).isArray THEN Leaves(Head(parts).parts)
          ELSE <<Head(parts)>>) \o Leaves(Tail(parts))

\* what the sender attached to the message and how it was encoded
DlInputs ==
    [payload : {<<"Q">>, <<" ">>}, encoding : {"base64", "7bit"},
     folded : {FALSE}, quoted : BOOLEAN, multipart : {TRUE}, name : {CvPdf}]

\* the entity of one leaf part in the raw message
EntityOf(leaf, in) ==
    IF leaf.disposition = "null" THEN TextEntity
    ELSE IF leaf.name = NoName THEN InlineEntity
    ELSE AttachmentEntity([in EXCEPT !.name = leaf.name])

\* the raw text of the message whose structure is struct
ServerRaw(struct, in) ==
    LET leaves == Leaves(struct)
    IN  IF Len(struct) = 1 /\ ~struct[1].isArray THEN EntityOf(struct[1], in)
        ELSE Multipart([i \in 1..Len(leaves) |-> EntityOf(leaves[i], in)])

\* imap.fetch(targetUid, {struct: true, uid: true})
StructRequest(targetUid) ==
    [source |-> targetUid, struct |-> TRUE, hasBodies |-> FALSE,
     bodies |-> <<>>]

\* imap.fetch(targetUid, {bodies: "", uid: true})
FullRequest(targetUid) ==
    [source |-> targetUid, struct |-> FALSE, hasBodies |-> TRUE,
     bodies |-> <<>>]

\* attachmentData = null
NullData == [isNull |-> TRUE]

\* the attachmentData object literal
BuildAttachmentData(attachmentContent, targetPart, targetAttachmentIndex) ==
    [isNull |-> FALSE,
     filename |-> IF targetPart.name # NoName THEN targetPart.name
                  ELSE <<"attachment-">> \o ToDigits(targetAttachmentIndex),
     contentType |-> <<ToLowerWord(targetPart.type), "/",
                       ToLowerWord(targetPart.subtype)>>,
     content |-> attachmentContent,
     encoding |-> "base64",
     size |-> IF targetPart.size # 0 THEN targetPart.size
              ELSE DecodedLength(attachmentContent)]

\* the object is built whatever the extraction returned
AttachmentDataUnguarded(attachmentContent, targetPart, targetAttachmentIndex) ==
    BuildAttachmentData(attachmentContent, targetPart, targetAttachmentIndex)

\* if (attachmentContent) { attachmentData = {...} }
AttachmentDataOf(attachmentContent, targetPart, targetAttachmentIndex) ==
    IF attachmentContent # <<>>
    THEN BuildAttachmentData(attachmentContent, targetPart,
                             targetAttachmentIndex)
    ELSE NullData

\* the rejection is left out
RejectIfNotFoundNever(walk, attachmentId, outcome) == outcome

\* if (!attachmentFound) reject(new Error(`Attachment ... not found`))
RejectIfNotFound(walk, attachmentId, outcome) ==
    IF ~walk.attachmentFound
    THEN Settle(outcome, Rejected(NotFoundError(attachmentId)))
    ELSE outcome

\* the full message is fetched whatever the walk found
FullFetchAlways(walk) == TRUE

\* if (attachmentFound && targetPart): the walk sets both or neither
FullFetchWanted(walk) == walk.attachmentFound

\* imap.end() on a session that has not failed
End(imap) == IF imap = "errored" THEN "errored" ELSE "ended"

NoBody == [stream |-> <<>>, messageBuffer |-> <<>>, chunks |-> 0]

NoTarget == [targetUid |-> 0, targetAttachmentIndex |-> 1, walk |-> NotFoundYet]

DlInit ==
    /\ dlPc = "connect"
    /\ dlImap = "connecting"
    /\ dlAttachmentId \in AttachmentIds
    /\ dlStruct = <<>>
    /\ dlTarget = NoTarget
    /\ dlRequests = <<>>
    /\ dlBody = NoBody
    /\ dlAttachmentData = NullData
    /\ dlTimer = "off"
    /\ dlOutcome = Pending

\* imap.once("ready"): imap.openBox("INBOX", true, callback)
DlReady ==
    /\ dlPc = "connect"
    /\ dlImap = "connecting"
    /\ dlImap' = "open"
    /\ dlPc' = "openBox"
    /\ UNCHANGED <<dlAttachmentId, dlStruct, dlTarget, dlRequests, dlBody,
                   dlAttachmentData, dlTimer, dlOutcome>>
    /\ UNCHANGED notDl

\* imap.once("error"): reject(err).  A failed connection emits nothing more.
DlImapError ==
    /\ dlImap \in {"connecting", "open"}
    /\ dlImap' = "errored"
    /\ dlOutcome' = Settle(dlOutcome, Rejected(ServerError("connection")))
    /\ UNCHANGED <<dlPc, dlAttachmentId, dlStruct, dlTarget, dlRequests,
                   dlBody, dlAttachmentData, dlTimer>>
    /\ UNCHANGED notDl

\* openBox callback with err: imap.end(); reject(err)
DlOpenBoxError ==
    /\ dlPc = "openBox"
    /\ dlImap = "open"
    /\ dlImap' = End(dlImap)
    /\ dlOutcome' = Settle(dlOutcome, Rejected(ServerError("openBox")))
    /\ dlPc' = "failed"
    /\ UNCHANGED <<dlAttachmentId, dlStruct, dlTarget, dlRequests, dlBody,
                   dlAttachmentData, dlTimer>>
    /\ UNCHANGED notDl

\* openBox callback without err: the id is parsed; with a truthy targetUid
\* the structure of the message is requested, otherwise the call fails
DlOpenBox ==
    /\ dlPc = "openBox"
    /\ dlImap = "open"
    /\ LET parsed == ParseAttachmentId(dlAttachmentId)
       IN  IF parsed.targetUid # 0
           THEN /\ dlTarget' = [targetUid |-> parsed.targetUid,
                                targetAttachmentIndex |->
                                    parsed.targetAttachmentIndex,
                                walk |-> NotFoundYet]
                /\ dlRequests' = Append(dlRequests,
                                        StructRequest(parsed.targetUid))
                /\ dlPc' = "structFetch"
                /\ UNCHANGED <<dlImap, dlOutcome>>
           ELSE /\ dlImap' = End(dlImap)
                /\ dlOutcome' = Settle(dlOutcome, Rejected(InvalidIdError))
                /\ dlPc' = "closed"
                /\ UNCHANGED <<dlTarget, dlRequests>>
    /\ UNCHANGED <<dlAttachmentId, dlStruct, dlBody, dlAttachmentData,
                   dlTimer>>
    /\ UNCHANGED notDl

\* structFetch "message" and msg.once("attributes") for the message the
\* mailbox holds; struct = <<>>: the attributes carry no struct
DlAttributes(struct) ==
    /\ dlPc = "structFetch"
    /\ dlImap = "open"
    /\ dlTarget.targetUid = MailboxUid
    /\ dlStruct' = struct
    /\ IF struct # <<>>
       THEN LET walk == LocateAttachment(struct,
                                         dlTarget.targetAttachmentIndex)
            IN  /\ dlTarget' = [dlTarget EXCEPT !.walk = walk]
                /\ dlImap' = IF walk.attachmentFound THEN dlImap
                             ELSE End(dlImap)
                /\ dlOutcome' = RejectIfNotFound(walk, dlAttachmentId,
                                                 dlOutcome)
       ELSE UNCHANGED <<dlTarget, dlImap, dlOutcome>>
    /\ dlPc' = "attributes"
    /\ UNCHANGED <<dlAttachmentId, dlRequests, dlBody, dlAttachmentData,
                   dlTimer>>
    /\ UNCHANGED notDl

\* structFetch.once("end"): the full message is requested when the part was
\* located; an end without a message event is a uid the mailbox lacks
DlStructEnd ==
    /\ dlPc \in {"structFetch", "attributes"}
    /\ dlImap # "errored"
    /\ IF FullFetchWanted(dlTarget.walk)
       THEN /\ dlRequests' = Append(dlRequests,
                                    FullRequest(dlTarget.targetUid))
            /\ dlPc' = "fullFetch"
       ELSE /\ dlPc' = "closed"
            /\ UNCHANGED dlRequests
    /\ UNCHANGED <<dlImap, dlAttachmentId, dlStruct, dlTarget, dlBody,
                   dlAttachmentData, dlTimer, dlOutcome>>
    /\ UNCHANGED notDl

\* structFetch.once("error"): imap.end(); reject(err)
DlStructError ==
    /\ dlPc \in {"structFetch", "attributes"}
    /\ dlImap = "open"
    /\ dlImap' = End(dlImap)
    /\ dlOutcome' = Settle(dlOutcome, Rejected(ServerError("fetch")))
    /\ dlPc' = "closed"
    /\ UNCHANGED <<dlAttachmentId, dlStruct, dlTarget, dlRequests, dlBody,
                   dlAttachmentData, dlTimer>>
    /\ UNCHANGED notDl

\* fullFetch "message" and fullMsg "body": messageBuffer = Buffer.alloc(0);
\* the server streams the raw message
DlFullMessage(in) ==
    /\ dlPc = "fullFetch"
    /\ dlImap = "open"
    /\ dlTimer = "off"
    /\ dlBody' = [stream |-> ServerRaw(dlStruct, in), messageBuffer |-> <<>>,
                  chunks |-> 0]
    /\ dlPc' = "body"
    /\ UNCHANGED <<dlImap, dlAttachmentId, dlStruct, dlTarget, dlRequests,
                   dlAttachmentData, dlTimer, dlOutcome>>
    /\ UNCHANGED notDl

\* stream.on("data"): messageBuffer = Buffer.concat([messageBuffer, chunk]);
\* the chunk is the rest of the stream or the first half of it
DlData(half) ==
    LET rest == Len(dlBody.stream)
        n == IF half THEN rest \div 2 ELSE rest
    IN  /\ dlPc = "body"
        /\ dlImap = "open"
        /\ n >= 1
        /\ dlBody.chunks < MaxChunks
        /\ half => dlBody.chunks + 1 < MaxChunks
        /\ dlBody' = [stream |-> SubSeq(dlBody.stream, n + 1, rest),
                      messageBuffer |-> dlBody.messageBuffer
                                            \o SubSeq(dlBody.stream, 1, n),
                      chunks |-> dlBody.chunks + 1]
        /\ UNCHANGED <<dlPc, dlImap, dlAttachmentId, dlStruct, dlTarget,
                       dlRequests, dlAttachmentData, dlTimer, dlOutcome>>
        /\ UNCHANGED notDl

\* stream.on("end"): messageText = messageBuffer.toString(), Method 1 and
\* Method 2, attachmentData
DlBodyEnd ==
    /\ dlPc = "body"
    /\ dlImap # "errored"
    /\ dlBody.stream = <<>>
    /\ LET messageText == Utf8Decode(dlBody.messageBuffer)
           attachmentContent ==
               ExtractContent(messageText, dlTarget.walk.targetPart)
       IN  dlAttachmentData' =
               AttachmentDataOf(attachmentContent, dlTarget.walk.targetPart,
                                dlTarget.targetAttachmentIndex)
    /\ dlPc' = "bodyDone"
    /\ UNCHANGED <<dlImap, dlAttachmentId, dlStruct, dlTarget, dlRequests,
                   dlBody, dlTimer, dlOutcome>>
    /\ UNCHANGED notDl

\* fullFetch.once("error"): imap.end(); reject(err)
DlFullError ==
    /\ dlPc \in {"fullFetch", "body", "bodyDone"}
    /\ dlImap = "open"
    /\ dlTimer = "off"
    /\ dlImap' = End(dlImap)
    /\ dlOutcome' = Settle(dlOutcome, Rejected(ServerError("fetch")))
    /\ dlPc' = "closed"
    /\ UNCHANGED <<dlAttachmentId, dlStruct, dlTarget, dlRequests, dlBody,
                   dlAttachmentData, dlTimer>>
    /\ UNCHANGED notDl

\* fullFetch.once("end"): setTimeout(..., 500).  The server has sent the
\* whole message; the end of the body stream may not have been handled yet.
DlFullEnd ==
    /\ \/ dlPc \in {"fullFetch", "bodyDone"}
       \/ dlPc = "body" /\ dlBody.stream = <<>>
    /\ dlImap = "open"
    /\ dlTimer = "off"
    /\ dlTimer' = "armed"
    /\ UNCHANGED <<dlPc, dlImap, dlAttachmentId, dlStruct, dlTarget,
                   dlRequests, dlBody, dlAttachmentData, dlOutcome>>
    /\ UNCHANGED notDl

\* the timer callback: imap.end(), then resolve(attachmentData) or
\* reject(new Error("Failed to extract attachment content"))
DlTimeout ==
    /\ dlTimer = "armed"
    /\ dlTimer' = "fired"
    /\ dlImap' = End(dlImap)
    /\ dlOutcome' = Settle(dlOutcome,
                           IF ~dlAttachmentData.isNull
                           THEN Resolved(dlAttachmentData)
                           ELSE Rejected(ExtractionError))
    /\ UNCHANGED <<dlPc, dlAttachmentId, dlStruct, dlTarget, dlRequests,
                   dlBody, dlAttachmentData>>
    /\ UNCHANGED notDl

DlNext ==
    \/ DlReady
    \/ DlImapError
    \/ DlOpenBoxError
    \/ DlOpenBox
    \/ \E struct \in DlStructs \cup {<<>>} : DlAttributes(struct)
    \/ DlStructEnd
    \/ DlStructError
    \/ \E in \in DlInputs : DlFullMessage(in)
    \/ \E half \in BOOLEAN : DlData(half)
    \/ DlBodyEnd
    \/ DlFullError
    \/ DlFullEnd
    \/ DlTimeout

-----------------------------------------------------------------------------
(* listEmails: one call.  The session connects, opens INBOX, searches and   *)
(* fetches the header fields and the structure of the messages found.  The  *)
(* fetch emits the messages one after the other; for each message the body  *)
(* and the attributes arrive in either order before the message ends, and   *)
(* the header stream of a message ends at any time after it was handed out. *)

\* isJobRelatedEmail(subject); an undefined subject is the empty string
isJobRelatedEmail(subject) ==
    LET lowerSubject == toLowerCase(subject)
        word(w) == Includes(lowerSubject, w)
        IsBlank(a) == a = " "
        \* /job\s*\[\w+\]/ matched at position p
        jobCodeAt(p) ==
            LET q == p + 3 + RunLength(lowerSubject, p + 3, IsBlank)
                r == RunLength(lowerSubject, q + 1, IsWordAtom)
            IN  /\ p + 2 <= Len(lowerSubject)
                /\ SubSeq(lowerSubject, p, p + 2) = <<"j", "o", "b">>
                /\ q <= Len(lowerSubject) /\ lowerSubject[q] = "["
                /\ r > 0
                /\ q + r + 1 <= Len(lowerSubject)
                /\ lowerSubject[q + r + 1] = "]"
        hasJobCode == \E p \in 1..Len(lowerSubject) : jobCodeAt(p)
        hasJobKeyword ==
            \/ word(<<"j", "o", "b">>)
            \/ word(<<"c", "a", "n", "d", "i", "d", "a", "t", "e">>)
            \/ word(<<"r", "e", "s", "u", "m", "e">>)
            \/ word(<<"c", "v">>)
    IN  IF Len(subject) = 0 THEN FALSE ELSE hasJobCode \/ hasJobKeyword

\* the messages a mailbox holds: whether the header has a From field, the
\* Subject field (<<>>: none) and the structure
ListMessages ==
    LET text == Leaf("null", NoName, "text", "plain", "7bit", 2)
        file(name) == Leaf("attachment", name, "application", "pdf",
                           "base64", 4)
    IN  { [from |-> TRUE,
           subject |-> <<"J", "O", "B", " ", "[", "A", "1", "]">>,
           struct |-> <<text, file(CvPdf)>>],
          [from |-> TRUE, subject |-> <<"H", "i">>, struct |-> <<text>>],
          [from |-> FALSE, subject |-> <<"m", "y", " ", "C", "V">>,
           struct |-> <<Arr(<<text, Leaf("INLINE", NoName, "image", "png",
                                         "base64", 4)>>),
                        file(<<"a", ".", "o", "d", "t">>)>>],
          [from |-> TRUE, subject |-> <<>>,
           struct |-> <<file(<<"p", "d", "f">>), file(NoName)>>] }

\* the UID of the message with sequence number seqno
UidOf(seqno) == 2 * seqno + 1

NoSubject == <<"(", "N", "o", " ", "s", "u", "b", "j", "e", "c", "t", ")">>

\* the entry of lsMsgs of a message the fetch has not emitted
NotEmitted == [pc |-> "none", body |-> "none", attrs |-> FALSE]

LsInit ==
    /\ lsPc = "connect"
    /\ lsImap = "connecting"
    /\ lsFilters \in [jobRelated : BOOLEAN, withAttachments : BOOLEAN]
    /\ lsBox \in UNION {[1..n -> [msg : ListMessages, matched : BOOLEAN]] :
                           n \in 1..MaxBox}
    /\ lsResults = <<>>
    /\ lsNext = 1
    /\ lsMsgs = [k \in 1..Len(lsBox) |-> NotEmitted]
    /\ lsEmails = <<>>
    /\ lsOutcome = Pending

\* imap.once("ready"): openBox is requested
LsReady ==
    /\ lsPc = "connect"
    /\ lsImap = "connecting"
    /\ lsImap' = "ready"
    /\ lsPc' = "openBox"
    /\ UNCHANGED <<lsFilters, lsBox, lsResults, lsNext, lsMsgs, lsEmails,
                   lsOutcome>>
    /\ UNCHANGED notLs

\* imap.once("error"): reject(err), nothing else
LsImapError ==
    /\ lsImap # "ended"
    /\ lsOutcome.kind = "pending"
    /\ lsOutcome' = Rejected("connection")
    /\ UNCHANGED <<lsPc, lsImap, lsFilters, lsBox, lsResults, lsNext, lsMsgs,
                   lsEmails>>
    /\ UNCHANGED notLs

\* openBox callback with err: imap.end(); reject(err)
LsOpenBoxError ==
    /\ lsPc = "openBox"
    /\ lsImap' = "ended"
    /\ lsPc' = "failed"
    /\ lsOutcome' = Settle(lsOutcome, Rejected("openBox"))
    /\ UNCHANGED <<lsFilters, lsBox, lsResults, lsNext, lsMsgs, lsEmails>>
    /\ UNCHANGED notLs

\* openBox callback without err: imap.search(searchCriteria, ...)
LsOpenBox ==
    /\ lsPc = "openBox"
    /\ lsPc' = "search"
    /\ UNCHANGED <<lsImap, lsFilters, lsBox, lsResults, lsNext, lsMsgs,
                   lsEmails, lsOutcome>>
    /\ UNCHANGED notLs

\* search callback with err: imap.end(); reject(err)
LsSearchError ==
    /\ lsPc = "search"
    /\ lsImap' = "ended"
    /\ lsPc' = "failed"
    /\ lsOutcome' = Settle(lsOutcome, Rejected("search"))
    /\ UNCHANGED <<lsFilters, lsBox, lsResults, lsNext, lsMsgs, lsEmails>>
    /\ UNCHANGED notLs

\* search callback with the messages the criteria matched: none ends the
\* session and resolves with no emails, otherwise imap.fetch(results, ...)
LsSearch ==
    LET results == SelectSeq([k \in 1..Len(lsBox) |-> k],
                             LAMBDA k : lsBox[k].matched)
    IN  /\ lsPc = "search"
        /\ lsResults' = results
        /\ IF Len(results) = 0
              THEN /\ lsImap' = "ended"
                   /\ lsPc' = "done"
                   /\ lsOutcome' = Settle(lsOutcome, Resolved(<<>>))
              ELSE /\ lsPc' = "fetch"
                   /\ UNCHANGED <<lsImap, lsOutcome>>
        /\ UNCHANGED <<lsFilters, lsBox, lsNext, lsMsgs, lsEmails>>
        /\ UNCHANGED notLs

\* the message whose events the fetch is emitting
Current == lsResults[lsNext - 1]

\* fetch.on("message", (msg, seqno)): the email object is created
LsMessage ==
    /\ lsPc = "fetch"
    /\ lsNext <= Len(lsResults)
    /\ lsNext > 1 => lsMsgs[Current].pc = "ended"
    /\ LET seqno == lsResults[lsNext]
       IN  lsMsgs' = [lsMsgs EXCEPT ![seqno] =
                         [pc |-> "open", body |-> "none", attrs |-> FALSE,
                          email |-> [id |-> ToDigits(seqno), seqno |-> seqno,
                                     hasAttachments |-> FALSE]]]
    /\ lsNext' = lsNext + 1
    /\ UNCHANGED <<lsPc, lsImap, lsFilters, lsBox, lsResults, lsEmails,
                   lsOutcome>>
    /\ UNCHANGED notLs

\* msg.on("body"): the listeners of the header stream are attached
LsBody ==
    /\ lsPc = "fetch"
    /\ lsNext > 1
    /\ lsMsgs[Current].pc = "open"
    /\ lsMsgs[Current].body = "none"
    /\ lsMsgs' = [lsMsgs EXCEPT ![Current].body = "open"]
    /\ UNCHANGED <<lsPc, lsImap, lsFilters, lsBox, lsResults, lsNext,
                   lsEmails, lsOutcome>>
    /\ UNCHANGED notLs

\* stream.on("end") of message k: a header without From leaves the email
\* as it is, otherwise from, subject and receivedAt are set
LsBodyEnd(k) ==
    /\ k \in 1..Len(lsBox)
    /\ lsMsgs[k].body = "open"
    /\ LET header == lsBox[k].msg
           parsed == [from |-> "fromHeader",
                      subject |-> IF Len(header.subject) > 0
                                    THEN header.subject ELSE NoSubject,
                      receivedAt |-> "date"]
       IN  lsMsgs' = [lsMsgs EXCEPT
                         ![k].body = "ended",
                         ![k].email = IF header.from THEN Spread(@, parsed)
                                      ELSE @]
    /\ UNCHANGED <<lsPc, lsImap, lsFilters, lsBox, lsResults, lsNext,
                   lsEmails, lsOutcome>>
    /\ UNCHANGED notLs

\* msg.once("attributes"): uid, messageId and the attachments of the
\* structure
LsAttributes ==
    /\ lsPc = "fetch"
    /\ lsNext > 1
    /\ lsMsgs[Current].pc = "open"
    /\ ~lsMsgs[Current].attrs
    /\ LET uid == UidOf(Current)
           attachments ==
               ListAttachments(lsBox[Current].msg.struct, uid, Current)
       IN  lsMsgs' = [lsMsgs EXCEPT
                         ![Current].attrs = TRUE,
                         ![Current].email =
                             Spread(@, [uid |-> uid, messageId |-> uid,
                                        hasAttachments |->
                                            Len(attachments) > 0,
                                        attachments |-> attachments])]
    /\ UNCHANGED <<lsPc, lsImap, lsFilters, lsBox, lsResults, lsNext,
                   lsEmails, lsOutcome>>
    /\ UNCHANGED notLs

\* emails.unshift(email)
Unshift(emails, email) == <<email>> \o emails

\* emails.push(email)
Push(emails, email) == Append(emails, email)

\* msg.once("end"): the filters decide on the email as it is by now
LsMsgEnd ==
    /\ lsPc = "fetch"
    /\ lsNext > 1
    /\ lsMsgs[Current].pc = "open"
    /\ lsMsgs[Current].body # "none"
    /\ lsMsgs[Current].attrs
    /\ LET email == lsMsgs[Current].email
           subject == IF "subject" \in DOMAIN email THEN email.subject
                      ELSE <<>>
           addEmail ==
               /\ ~(lsFilters.jobRelated /\ ~isJobRelatedEmail(subject))
               /\ ~(lsFilters.withAttachments /\ ~email.hasAttachments)
       IN  lsEmails' = IF addEmail THEN Push(lsEmails, Current) ELSE lsEmails
    /\ lsMsgs' = [lsMsgs EXCEPT ![Current].pc = "ended"]
    /\ UNCHANGED <<lsPc, lsImap, lsFilters, lsBox, lsResults, lsNext,
                   lsOutcome>>
    /\ UNCHANGED notLs

\* fetch.once("error"): imap.end(); reject(err).  The fetch emits end after
\* it.
LsFetchError ==
    /\ lsPc = "fetch"
    /\ lsImap' = "ended"
    /\ lsPc' = "fetchErrored"
    /\ lsOutcome' = Settle(lsOutcome, Rejected("fetch"))
    /\ UNCHANGED <<lsFilters, lsBox, lsResults, lsNext, lsMsgs, lsEmails>>
    /\ UNCHANGED notLs

\* fetch.once("end"): imap.end(); resolve({ emails })
LsFetchEnd ==
    /\ \/ lsPc = "fetchErrored"
       \/ /\ lsPc = "fetch"
          /\ lsNext > Len(lsResults)
          /\ lsMsgs[Current].pc = "ended"
    /\ lsImap' = "ended"
    /\ lsPc' = IF lsPc = "fetchErrored" THEN "failed" ELSE "done"
    /\ lsOutcome' = Settle(lsOutcome, Resolved(lsEmails))
    /\ UNCHANGED <<lsFilters, lsBox, lsResults, lsNext, lsMsgs, lsEmails>>
    /\ UNCHANGED notLs

LsNext ==
    \/ LsReady
    \/ LsImapError
    \/ LsOpenBoxError
    \/ LsOpenBox
    \/ LsSearchError
    \/ LsSearch
    \/ LsMessage
    \/ LsBody
    \/ \E k \in 1..MaxBox : LsBodyEnd(k)
    \/ LsAttributes
    \/ LsMsgEnd
    \/ LsFetchError
    \/ LsFetchEnd

-----------------------------------------------------------------------------
(* The search criteria and the attachment walk of the two listEmails of the *)
(* repository, services/firebaseService.js and services/importService.js.   *)
(* An instant is a number of hours since 00:00 UTC of day 0; the calendar   *)
(* of the model has months of 30 days.  toISOString().split("T")[0] is the  *)
(* UTC date of an instant, that is its hours divided by 24.                 *)

\* searchCriteria of services/firebaseService.js: unseen is FALSE for ALL,
\* since holds the date of a SINCE criterion
SearchCriteria(dateFilter, now) ==
    LET isoDate(t) == t \div 24
    IN  [unseen |-> FALSE,
         since |-> CASE dateFilter = "today" -> <<isoDate(now)>>
                     [] dateFilter = "week" -> <<isoDate(now - 7 * 24)>>
                     [] dateFilter = "month" -> <<isoDate(now - 30 * 24)>>
                     [] OTHER -> <<>>]

\* searchCriteria of services/importService.js
ImportSearchCriteria(dateFilter, now) ==
    LET isoDate(t) == t \div 24
    IN  [unseen |-> TRUE,
         since |-> CASE dateFilter = "today" -> <<isoDate(now)>>
                     [] dateFilter = "week" -> <<isoDate(now - 7 * 24)>>
                     [] OTHER -> <<>>]

\* traverse of services/importService.js from index i on: no part id, the
\* name as params.name gives it (NoName: undefined), the id from seqno
RECURSIVE ImportTraverse(_, _, _, _)
ImportTraverse(parts, i, seqno, attachments) ==
    IF i > Len(parts) THEN attachments
    ELSE LET part == parts[i]
             next ==
                 IF part.isArray
                 THEN ImportTraverse(part.parts, 1, seqno, attachments)
                 ELSE IF IsAttachmentDisposed(part)
                 THEN Append(attachments,
                             [id |-> FormatAttachmentId(
                                         0, seqno, Len(attachments) + 1),
                              name |-> part.name,
                              size |-> part.size,
                              isResume |-> isResume(part.name)])
                 ELSE attachments
         IN  ImportTraverse(parts, i + 1, seqno, next)

VaInit ==
    /\ vaPc = "search"
    /\ vaIn \in [impl : {"firebaseService", "importService"},
                  dateFilter : {"none", "today", "week", "month"},
                  now : {40 * 24, 40 * 24 + 15, 40 * 24 + 23},
                  tz : {-5, 0, 2},
                  age : {1, 20, 200, 800},
                  unseen : BOOLEAN,
                  struct : {s \in Structs : Len(s) = 2}]
    /\ vaCriteria = <<>>
    /\ vaReturned = FALSE
    /\ vaAtts = <<>>

\* imap.search(searchCriteria): the server gives a message that satisfies
\* every criterion; SINCE compares the date of the message with the date
\* of the criterion
VaSearch ==
    LET criteria == IF vaIn.impl = "firebaseService"
                      THEN SearchCriteria(vaIn.dateFilter, vaIn.now)
                      ELSE ImportSearchCriteria(vaIn.dateFilter, vaIn.now)
        received == vaIn.now - vaIn.age
    IN  /\ vaPc = "search"
        /\ vaCriteria' = criteria
        /\ vaReturned' = /\ criteria.unseen => vaIn.unseen
                         /\ \/ criteria.since = <<>>
                            \/ received \div 24 >= criteria.since[1]
        /\ vaPc' = "attributes"
        /\ UNCHANGED <<vaIn, vaAtts>>
        /\ UNCHANGED notVa

\* msg.once("attributes") for the message, sequence number 1 and UID 7
VaAttributes ==
    /\ vaPc = "attributes"
    /\ vaAtts' = IF vaIn.impl = "firebaseService"
                   THEN ListAttachments(vaIn.struct, MailboxUid, 1)
                   ELSE ImportTraverse(vaIn.struct, 1, 1, <<>>)
    /\ vaPc' = "done"
    /\ UNCHANGED <<vaIn, vaCriteria, vaReturned>>
    /\ UNCHANGED notVa

VaNext == VaSearch \/ VaAttributes

-----------------------------------------------------------------------------
(* The resume parsing routes (api/parse-resume.js): one upload.  What the   *)
(* PDF libraries, mammoth, the file system and OpenAI give for the file is  *)
(* chosen freely at the await that asks for it.                            *)

\* fileFilter of the multer upload: only the mimetype is looked at
fileFilter(mimetype) ==
    mimetype \in {"application/pdf", "application/msword",
                  "application/vnd.openxmlformats-officedocument.wordprocessingml.document"}

\* the libraries of extractTextFromPDF, in the order of its try blocks
Strategies == <<"pdf-parse", "pdf2json", "pdfjs-dist">>

\* text.length > 0, without the trim
AcceptedUntrimmed(text) == Len(text) > 0

\* text && text.trim().length > 0
Accepted(text) == Len(Trim(text)) > 0

\* what one library call gives: a text, or an error that is thrown
Outcomes ==
    [kind : {"text"},
     text : {<<>>, <<" ">>, <<"CR", "LF">>, <<"x">>, <<" ", "x", "LF">>}]
        \cup [kind : {"threw"}, message : {"bad XRef", "ENOENT"}]

PaInit ==
    /\ paPc = "request"
    /\ paReq = <<>>
    /\ paCalls = <<>>
    /\ paErrors = <<>>
    /\ paChain = Pending
    /\ paText = <<>>
    /\ paRes = <<>>

\* the upload middleware, and the handler up to the branch on fileExtension.
\* An upload the filter refuses never reaches the handler: multer passes the
\* filter's error to next(), and errorHandler answers with its message and
\* status 500 (the error carries no statusCode).
PaRequest(route, extname, mimetype) ==
    LET lowered(e) == IF e = ".PDF" THEN ".pdf" ELSE e
        fileExtension == lowered(extname)
        answer(status, error) ==
            /\ paPc' = "done"
            /\ paRes' = [status |-> status, success |-> FALSE,
                         error |-> error]
    IN  /\ paPc = "request"
        /\ paReq' = [route |-> route, fileExtension |-> fileExtension,
                     mimetype |-> mimetype]
        /\ IF ~fileFilter(mimetype)
              THEN answer(500, "Invalid file type. Only PDF, DOC, and DOCX files are allowed.")
              ELSE IF fileExtension = ".pdf"
                     THEN paPc' = "pdf" /\ paRes' = paRes
              ELSE IF fileExtension \in {".doc", ".docx"}
                     THEN paPc' = "docx" /\ paRes' = paRes
              ELSE IF route = "/parse-attachment" /\ fileExtension = ".txt"
                     THEN paPc' = "txt" /\ paRes' = paRes
              ELSE answer(400, "Unsupported file type")
        /\ UNCHANGED <<paCalls, paErrors, paChain, paText>>
        /\ UNCHANGED notPa

\* the 422 answer of the catch around the text extraction
ExtractionFailure(message) ==
    [status |-> 422, success |-> FALSE,
     error |-> "Failed to extract text from the file", details |-> message]

\* extractTextFromPDF: the next try block.  An accepted text is returned at
\* once; a thrown error is pushed to errors; after the last block the
\* function throws the joined errors.  The route then tests the returned
\* text once more before it keeps it.
PaStrategy(outcome) ==
    LET name == Strategies[Len(paCalls) + 1]
        returns == outcome.kind = "text" /\ Accepted(outcome.text)
        errors == IF outcome.kind = "threw"
                    THEN Append(paErrors, [strategy |-> name,
                                           message |-> outcome.message])
                    ELSE paErrors
    IN  /\ paPc = "pdf"
        /\ paCalls' = Append(paCalls, [library |-> name, outcome |-> outcome])
        /\ IF returns
              THEN /\ paChain' = [kind |-> "returned", text |-> outcome.text]
                   /\ paErrors' = paErrors
                   /\ IF Len(Trim(outcome.text)) = 0
                         THEN /\ paPc' = "done"
                              /\ paRes' = ExtractionFailure(
                                     "PDF parsed but no text could be extracted")
                              /\ paText' = outcome.text
                         ELSE /\ paPc' = "openai"
                              /\ paText' = outcome.text
                              /\ paRes' = paRes
              ELSE /\ paErrors' = errors
                   /\ paText' = paText
                   /\ IF Len(paCalls') < Len(Strategies)
                         THEN UNCHANGED <<paPc, paChain, paRes>>
                         ELSE /\ paChain' = [kind |-> "threw",
                                             errors |-> errors]
                              /\ paPc' = "done"
                              /\ paRes' = ExtractionFailure(errors)
        /\ UNCHANGED paReq
        /\ UNCHANGED notPa

\* extractTextFromDOCX: result.value as mammoth gives it, or its own error
\* for whatever mammoth throws
PaDocx(outcome) ==
    /\ paPc = "docx"
    /\ paCalls' = Append(paCalls, [library |-> "mammoth", outcome |-> outcome])
    /\ IF outcome.kind = "text"
          THEN paText' = outcome.text /\ paPc' = "openai" /\ paRes' = paRes
          ELSE /\ paText' = paText
               /\ paPc' = "done"
               /\ paRes' = ExtractionFailure(
                      "Failed to extract text from DOC/DOCX")
    /\ UNCHANGED <<paReq, paErrors, paChain>>
    /\ UNCHANGED notPa

\* fs.readFileSync(filePath, "utf8") of /parse-attachment
PaTxt(outcome) ==
    /\ paPc = "txt"
    /\ IF outcome.kind = "text"
          THEN paText' = outcome.text /\ paPc' = "openai" /\ paRes' = paRes
          ELSE /\ paText' = paText
               /\ paPc' = "done"
               /\ paRes' = ExtractionFailure(outcome.message)
    /\ UNCHANGED <<paReq, paCalls, paErrors, paChain>>
    /\ UNCHANGED notPa

\* parseResumeWithOpenAI(text, originalname) and the answer of the route
PaOpenAI(parsed) ==
    /\ paPc = "openai"
    /\ paPc' = "done"
    /\ paRes' = IF parsed
                  THEN [status |-> 200, success |-> TRUE,
                        data |-> [resumeText |-> paText]]
                  ELSE [status |-> 500, success |-> FALSE,
                        error |-> "Failed to parse resume content"]
    /\ UNCHANGED <<paReq, paCalls, paErrors, paChain, paText>>
    /\ UNCHANGED notPa

PaNext ==
    \/ \E route \in {"/parse", "/parse-attachment"},
          extname \in {".pdf", ".PDF", ".doc", ".docx", ".txt", ".rtf", ""},
          mimetype \in {"application/pdf", "application/msword",
                        "application/vnd.openxmlformats-officedocument.wordprocessingml.document",
                        "text/plain"} :
           PaRequest(route, extname, mimetype)
    \/ \E outcome \in Outcomes : PaStrategy(outcome)
    \/ \E outcome \in Outcomes : PaDocx(outcome)
    \/ \E outcome \in Outcomes : PaTxt(outcome)
    \/ \E parsed \in BOOLEAN : PaOpenAI(parsed)

-----------------------------------------------------------------------------
(* Message identity across sessions.  The mailbox is the sequence of the    *)
(* UIDs of its messages in ascending order; the message at position i has   *)
(* sequence number i.  A UID stays with its message for good; a sequence    *)
(* number is a position and moves when an earlier message is removed.       *)

\* imap.fetch(source, options) of node-imap: the UID FETCH command (the
\* sequence-number fetch is imap.seq.fetch, which the code never calls).
\* Each message of the box whose UID is in source is emitted with its
\* sequence number (second argument of the 'message' event) and attrs.uid.
UidFetch(box, source) ==
    SelectSeq([i \in 1..Len(box) |-> [seqno |-> i, uid |-> box[i]]],
              LAMBDA msg : msg.uid \in source)

MbInit ==
    /\ mbPc = "list"
    /\ mbBox \in {box \in UNION {[1..n -> 1..MaxMailboxUid] :
                                       n \in 1..MaxMailboxUid} :
                     \A i \in 1..(Len(box) - 1) : box[i] < box[i + 1]}
    /\ mbEmails = <<>>
    /\ mbPick = 0
    /\ mbFetched = <<>>

\* listEmails with no filter: imap.search(["ALL"]) gives the UIDs of all
\* messages, the fetch emits each, and the email object takes its id from
\* seqno and its uid and attachment ids from attrs.uid
MbList ==
    LET results == {mbBox[i] : i \in 1..Len(mbBox)}
        messages == UidFetch(mbBox, results)
        email(msg) ==
            [id |-> ToDigits(msg.seqno),
             seqno |-> msg.seqno,
             uid |-> msg.uid,
             attachments |->
                 ListAttachments(<<Leaf("attachment", CvPdf, "application",
                                        "pdf", "base64", 4)>>,
                                 msg.uid, msg.seqno)]
    IN  /\ mbPc = "list"
        /\ mbEmails' = [i \in 1..Len(messages) |-> email(messages[i])]
        /\ mbPc' = "listed"
        /\ UNCHANGED <<mbBox, mbPick, mbFetched>>
        /\ UNCHANGED notMb

\* imap.openBox("INBOX") of a later session: the mailbox as it is by then,
\* with the messages outside kept removed
MbOpenBox(kept) ==
    /\ mbPc = "listed"
    /\ mbBox' = SelectSeq(mbBox, LAMBDA uid : uid \in kept)
    /\ mbPc' = "open"
    /\ UNCHANGED <<mbEmails, mbPick, mbFetched>>
    /\ UNCHANGED notMb

\* processEmails([emails[k].id]): numericIds and the fetch
MbProcess(k) ==
    /\ mbPc = "open"
    /\ k \in 1..Len(mbEmails)
    /\ LET numericIds == {ParseInt(mbEmails[k].id)}
       IN  mbFetched' = UidFetch(mbBox, numericIds)
    /\ mbPick' = k
    /\ mbPc' = "processed"
    /\ UNCHANGED <<mbBox, mbEmails>>
    /\ UNCHANGED notMb

\* downloadEmailAttachment(emails[k].id, emails[k].attachments[0].id):
\* the structure fetch
MbDownload(k) ==
    /\ mbPc = "open"
    /\ k \in 1..Len(mbEmails)
    /\ LET targetUid ==
               ParseAttachmentId(mbEmails[k].attachments[1].id).targetUid
       IN  mbFetched' = IF targetUid # 0 THEN UidFetch(mbBox, {targetUid})
                        ELSE <<>>
    /\ mbPick' = k
    /\ mbPc' = "downloaded"
    /\ UNCHANGED <<mbBox, mbEmails>>
    /\ UNCHANGED notMb

MbNext ==
    \/ MbList
    \/ \E kept \in SUBSET (1..MaxMailboxUid) : MbOpenBox(kept)
    \/ \E k \in 1..MaxMailboxUid : MbProcess(k)
    \/ \E k \in 1..MaxMailboxUid : MbDownload(k)

-----------------------------------------------------------------------------
(* processAttachment: one call.  The attachment is written to a temporary  *)
(* file, read back, posted to the parse endpoint, and the temporary file   *)
(* and directory are removed; each of these steps may fail.                *)

\* the attachments a call is made with: names of supported and unsupported
\* types, a name without an extension, and metadata without a name
PrAttachments ==
    [name : {<<"c", "v", ".", "P", "D", "F">>, <<"a", ".", "o", "d", "t">>,
             <<"C", "V", ".", "d", "o", "c", "x">>,
             <<"p", "i", "c", ".", "p", "n", "g">>, <<"p", "d", "f">>,
             NoName},
     size : {0, 3},
     contentType : {"application/pdf"}]

\* what the parse endpoint may send back with a 2xx status, and the request
\* failing (no answer, or an answer with another status)
PrResponses ==
    {[kind |-> "threw"],
     [kind |-> "answered", success |-> FALSE, data |-> <<>>],
     [kind |-> "answered", success |-> TRUE, data |-> <<>>],
     [kind |-> "answered", success |-> TRUE,
      data |-> [name |-> "Ann", importMethod |-> "manual"]]}

\* the answer passes whatever its success field says
ParseAnswered(response) == response.kind = "answered"

\* !response.data.success does not throw
ParseSucceeded(response) == response.kind = "answered" /\ response.success

\* the value of the return statement of the inner try block
ParsedInformation(attachment, response) ==
    Spread(response.data,
           [source |-> "email_attachment",
            importMethod |-> "ai_parser",
            originalFilename |-> attachment.name,
            fileSize |-> attachment.size,
            fileType |-> attachment.contentType])

\* the value the catch block returns
BasicInformation(attachment) ==
    [name |-> "Unknown Candidate",
     email |-> "null",
     source |-> "email_attachment",
     importMethod |-> "basic_extraction",
     originalFilename |-> attachment.name,
     fileSize |-> attachment.size,
     fileType |-> attachment.contentType,
     hasResume |-> TRUE,
     resumeFileName |-> attachment.name]

PrInit ==
    /\ prPc = "check"
    /\ prAttachment \in PrAttachments
    /\ prTemp = "none"
    /\ prResponse = <<>>
    /\ prPending = "none"
    /\ prResult = <<>>

\* the outer catch block: log, return the basic information
PrCatch ==
    /\ prPc' = "returned"
    /\ prResult' = BasicInformation(prAttachment)

\* attachment.name.toLowerCase() and the supported-type test
PrCheck ==
    LET fileName == toLowerCase(prAttachment.name)
        supportedTypes ==
            {<<".", "p", "d", "f">>, <<".", "d", "o", "c">>,
             <<".", "d", "o", "c", "x">>, <<".", "t", "x", "t">>,
             <<".", "r", "t", "f">>, <<".", "o", "d", "t">>}
        endsWith(s, ext) ==
            /\ Len(ext) <= Len(s)
            /\ SubSeq(s, Len(s) - Len(ext) + 1, Len(s)) = ext
    IN  /\ prPc = "check"
        /\ IF \/ prAttachment.name = NoName
              \/ ~\E ext \in supportedTypes : endsWith(fileName, ext)
             THEN PrCatch
             ELSE prPc' = "tempDir" /\ UNCHANGED prResult
        /\ UNCHANGED <<prAttachment, prTemp, prResponse, prPending>>
        /\ UNCHANGED notPr

\* await createTempDir(): outside the inner try block
PrCreateTempDir(ok) ==
    /\ prPc = "tempDir"
    /\ IF ok
         THEN prPc' = "write" /\ prTemp' = "dir" /\ UNCHANGED prResult
         ELSE PrCatch /\ UNCHANGED prTemp
    /\ UNCHANGED <<prAttachment, prResponse, prPending>>
    /\ UNCHANGED notPr

\* await fs.writeFile(tempFile, content); a failed write may or may not
\* have created the file
PrWriteFile(ok) ==
    /\ prPc = "write"
    /\ IF ok
         THEN prPc' = "read" /\ prTemp' = "file" /\ UNCHANGED prPending
         ELSE /\ prPc' = "finally"
              /\ prPending' = "throw"
              /\ prTemp' \in {"dir", "file"}
    /\ UNCHANGED <<prAttachment, prResponse, prResult>>
    /\ UNCHANGED notPr

\* await fs.readFile(tempFile)
PrReadFile(ok) ==
    /\ prPc = "read"
    /\ IF ok
         THEN prPc' = "post" /\ UNCHANGED prPending
         ELSE prPc' = "finally" /\ prPending' = "throw"
    /\ UNCHANGED <<prAttachment, prTemp, prResponse, prResult>>
    /\ UNCHANGED notPr

\* await axios.post(...), the success test and the return statement
PrPost(response) ==
    /\ prPc = "post"
    /\ prResponse' = response
    /\ prPc' = "finally"
    /\ prPending' = IF ParseSucceeded(response) THEN "return" ELSE "throw"
    /\ UNCHANGED <<prAttachment, prTemp, prResult>>
    /\ UNCHANGED notPr

\* try { await fs.unlink(tempFile); await fs.rmdir(tempDir) } catch: what
\* is left of the directory.  unlink throws when the file was never
\* created, and rmdir is not reached then; `removed` is whether the file
\* system carries out what it is asked.
Cleanup(temp, removed) ==
    IF temp = "dir" THEN "dirLeft"
    ELSE IF removed THEN "removed" ELSE "left"

\* the finally block: the cleanup, a failure of which is logged; then the
\* pending return completes, or the pending error reaches the catch block
PrFinally(removed) ==
    /\ prPc = "finally"
    /\ prTemp' = Cleanup(prTemp, removed)
    /\ IF prPending = "return"
         THEN /\ prPc' = "returned"
              /\ prResult' = ParsedInformation(prAttachment, prResponse)
         ELSE PrCatch
    /\ UNCHANGED <<prAttachment, prResponse, prPending>>
    /\ UNCHANGED notPr

PrNext ==
    \/ PrCheck
    \/ \E ok \in BOOLEAN : PrCreateTempDir(ok)
    \/ \E ok \in BOOLEAN : PrWriteFile(ok)
    \/ \E ok \in BOOLEAN : PrReadFile(ok)
    \/ \E response \in PrResponses : PrPost(response)
    \/ \E removed \in BOOLEAN : PrFinally(removed)

-----------------------------------------------------------------------------
(* POST /connect: the route checks the body, validateConnection builds the *)
(* Imap object with setupImapConnection and connects; the first 'ready' or *)
(* 'error' of the connection settles the promise and the route answers.    *)

\* a port is the string of its digits; <<>> is a port that was not given
NoPort == <<>>

\* serverConfigs[provider] is undefined
NoConfig == [host |-> Undefined, port |-> 0, defined |-> FALSE]

\* the options the Imap constructor is called with
setupImapConnection(provider, server, port) ==
    LET serverConfigs ==
            [gmail |-> [host |-> "imap.gmail.com", port |-> 993],
             outlook |-> [host |-> "outlook.office365.com", port |-> 993],
             other |-> [host |-> server,
                        port |-> IF port # NoPort THEN ParseInt(port)
                                 ELSE 993]]
    IN  IF provider \in DOMAIN serverConfigs
        THEN [host |-> serverConfigs[provider].host,
              port |-> serverConfigs[provider].port,
              defined |-> TRUE]
        ELSE NoConfig

\* new Imap(options) of node-imap: a host that is not given is localhost
NewImap(config) ==
    [host |-> IF Truthy(config.host) THEN config.host ELSE "localhost",
     port |-> config.port]

CoBodies ==
    [provider : {"gmail", "outlook", "other", "yahoo", Undefined},
     server : {"mail.example.com", Undefined},
     port : {<<"1", "4", "3">>, <<"9", "9", "3">>, NoPort},
     username : {"ann", Undefined},
     password : {"secret", Undefined}]

CoInit ==
    /\ coPc = "request"
    /\ coBody \in CoBodies
    /\ coConfig = <<>>
    /\ coImap = "none"
    /\ coOutcome = Pending
    /\ coStatus = 0

\* the route up to the await: the body check, then the executor of
\* validateConnection; a throw of the executor rejects the promise, and the
\* catch block of the route answers 400
CoPost ==
    LET config == setupImapConnection(coBody.provider, coBody.server,
                                      coBody.port)
    IN  /\ coPc = "request"
        /\ IF \/ ~Truthy(coBody.provider)
              \/ ~Truthy(coBody.username)
              \/ ~Truthy(coBody.password)
             THEN /\ coPc' = "answered"
                  /\ coStatus' = 400
                  /\ UNCHANGED <<coConfig, coImap, coOutcome>>
             ELSE IF ~config.defined
             THEN /\ coPc' = "answered"
                  /\ coOutcome' = Rejected("TypeError")
                  /\ coStatus' = 400
                  /\ UNCHANGED <<coConfig, coImap>>
             ELSE /\ coPc' = "connecting"
                  /\ coConfig' = NewImap(config)
                  /\ coImap' = "connecting"
                  /\ UNCHANGED <<coOutcome, coStatus>>
        /\ UNCHANGED coBody
        /\ UNCHANGED notCo

\* imap.once("ready"): end the session, resolve; the route answers 200
CoReady ==
    /\ coPc = "connecting"
    /\ coImap' = End(coImap)
    /\ coOutcome' = Settle(coOutcome, Resolved("Connection successful"))
    /\ coStatus' = 200
    /\ coPc' = "answered"
    /\ UNCHANGED <<coBody, coConfig>>
    /\ UNCHANGED notCo

\* imap.once("error"): reject; the catch block of the route answers 400
CoError ==
    /\ coPc = "connecting"
    /\ coImap' = "errored"
    /\ coOutcome' = Settle(coOutcome, Rejected("Connection failed"))
    /\ coStatus' = 400
    /\ coPc' = "answered"
    /\ UNCHANGED <<coBody, coConfig>>
    /\ UNCHANGED notCo

CoNext ==
    \/ CoPost
    \/ CoReady
    \/ CoError

-----------------------------------------------------------------------------
(* extractTextWithPdfParse: one call.  pdfParse is tried with its default  *)
(* options and, after some failures, with the lenient options.  A message  *)
(* is the sequence of its words.                                           *)

\* what pdfParse may do with a buffer: give a text, or fail with a message
PdfParseOutcomes ==
    [ok : {TRUE}, text : {<<>>, <<" ">>, <<"t", "x">>}]
    \cup [ok : {FALSE},
          message : {<<"bad", "XRef", "entry">>,
                     <<"Invalid", "cross-reference", "table">>,
                     <<"FormatError", "unexpected", "token">>,
                     <<"bad", "xref", "entry">>,
                     <<"No", "password", "given">>}]

\* the files: whether the file can be read, what pdfParse gives for its
\* buffer with the default options and with the lenient ones
PdfFiles ==
    [readable : BOOLEAN, default : PdfParseOutcomes,
     lenient : PdfParseOutcomes]

\* every failure is retried
RetryAlways(message) == TRUE

\* pdfError.message.includes("XRef") || ... "cross-reference" ||
\* ... "FormatError"
RetryWanted(message) ==
    \/ Includes(message, <<"XRef">>)
    \/ Includes(message, <<"cross-reference">>)
    \/ Includes(message, <<"FormatError">>)

PpInit ==
    /\ ppPc = "default"
    /\ ppFile \in PdfFiles
    /\ ppCalls = <<>>
    /\ ppResult = <<>>

\* fs.readFileSync(filePath) and await pdfParse(dataBuffer): the text is
\* returned as it is; a failure is thrown on unless its message asks for
\* the retry
PpDefault ==
    /\ ppPc = "default"
    /\ IF ~ppFile.readable
         THEN /\ ppPc' = "threw"
              /\ ppResult' = <<"ENOENT">>
              /\ UNCHANGED ppCalls
         ELSE /\ ppCalls' = Append(ppCalls, "default")
              /\ IF ppFile.default.ok
                   THEN ppPc' = "returned" /\ ppResult' = ppFile.default.text
                   ELSE IF RetryWanted(ppFile.default.message)
                   THEN ppPc' = "fallback" /\ UNCHANGED ppResult
                   ELSE /\ ppPc' = "threw"
                        /\ ppResult' = ppFile.default.message
    /\ UNCHANGED ppFile
    /\ UNCHANGED notPp

\* await pdfParse(dataBuffer, options): a text that is not empty is
\* returned, an empty one and a failure are thrown
PpFallback ==
    /\ ppPc = "fallback"
    /\ ppCalls' = Append(ppCalls, "lenient")
    /\ IF ppFile.lenient.ok
         THEN IF Len(ppFile.lenient.text) > 0
              THEN ppPc' = "returned" /\ ppResult' = ppFile.lenient.text
              ELSE /\ ppPc' = "threw"
                   /\ ppResult' = <<"Parsed", "PDF", "but", "no", "text",
                                     "was", "extracted">>
         ELSE ppPc' = "threw" /\ ppResult' = ppFile.lenient.message
    /\ UNCHANGED ppFile
    /\ UNCHANGED notPp

PpNext ==
    \/ PpDefault
    \/ PpFallback

-----------------------------------------------------------------------------
(* Specifications.  Each one runs one component; the variables of the      *)
(* other components stay at their idle values.                             *)

\* the variables of the components other than the running one keep the
\* values they have while the component is not in use
Idle(running) ==
    /\ running = "index" \/
           (/\ ixPc = "off"
            /\ ixStruct = <<>>
            /\ ixUid = 0
            /\ ixSeqno = 0
            /\ ixAtts = <<>>
            /\ ixPick = 0
            /\ ixFound = NotFoundYet)
    /\ running = "store" \/
           (/\ stStore = <<>>
            /\ stCalls = [c \in CallIds |-> IdleCall]
            /\ stClock = 0
            /\ stStarted = 0)
    /\ running = "batch" \/
           (/\ baPhase = "off"
            /\ baImap = "none"
            /\ baTempDir = "none"
            /\ baMsgs = <<>>
            /\ baNext = 0
            /\ baProcessed = <<>>
            /\ baCandidates = <<>>
            /\ baOutcome = Pending)
    /\ running = "extract" \/
           (/\ exPc = "off"
            /\ exInput = <<>>
            /\ exTarget = <<>>
            /\ exText = <<>>
            /\ exContent = <<>>)
    /\ running = "download" \/
           (/\ dlPc = "off"
            /\ dlImap = "none"
            /\ dlAttachmentId = <<>>
            /\ dlStruct = <<>>
            /\ dlTarget = NoTarget
            /\ dlRequests = <<>>
            /\ dlBody = NoBody
            /\ dlAttachmentData = NullData
            /\ dlTimer = "off"
            /\ dlOutcome = Pending)
    /\ running = "parse" \/
           (/\ paPc = "off"
            /\ paReq = <<>>
            /\ paCalls = <<>>
            /\ paErrors = <<>>
            /\ paChain = Pending
            /\ paText = <<>>
            /\ paRes = <<>>)
    /\ running = "mailbox" \/
           (/\ mbPc = "off"
            /\ mbBox = <<>>
            /\ mbEmails = <<>>
            /\ mbPick = 0
            /\ mbFetched = <<>>)
    /\ running = "list" \/
           (/\ lsPc = "off"
            /\ lsImap = "none"
            /\ lsFilters = <<>>
            /\ lsBox = <<>>
            /\ lsResults = <<>>
            /\ lsNext = 0
            /\ lsMsgs = <<>>
            /\ lsEmails = <<>>
            /\ lsOutcome = Pending)
    /\ running = "variants" \/
           (/\ vaPc = "off"
            /\ vaIn = <<>>
            /\ vaCriteria = <<>>
            /\ vaReturned = FALSE
            /\ vaAtts = <<>>)
    /\ running = "attachment" \/
           (/\ prPc = "off"
            /\ prAttachment = <<>>
            /\ prTemp = "none"
            /\ prResponse = <<>>
            /\ prPending = "none"
            /\ prResult = <<>>)
    /\ running = "connect" \/
           (/\ coPc = "off"
            /\ coBody = <<>>
            /\ coConfig = <<>>
            /\ coImap = "none"
            /\ coOutcome = Pending
            /\ coStatus = 0)
    /\ running = "pdfParse" \/
           (/\ ppPc = "off"
            /\ ppFile = <<>>
            /\ ppCalls = <<>>
            /\ ppResult = <<>>)

InitIndex == IxInit /\ Idle("index")

SpecIndex == InitIndex /\ [][IxNext]_vars

InitStore == StInit /\ Idle("store")

SpecStore == InitStore /\ [][StNext]_vars

SpecStoreConcurrent == InitStore /\ [][StConcurrentNext]_vars

InitBatch == BaInit /\ Idle("batch")

SpecBatch == InitBatch /\ [][BaNext]_vars

InitBatchSeveral == BaSeveralInit /\ Idle("batch")

SpecBatchSeveral == InitBatchSeveral /\ [][BaNext]_vars

InitExtract == ExInit /\ Idle("extract")

SpecExtract == InitExtract /\ [][ExNext]_vars

InitExtractSeveral == ExSeveralInit /\ Idle("extract")

SpecExtractSeveral == InitExtractSeveral /\ [][ExNext]_vars

InitDownload == DlInit /\ Idle("download")

SpecDownload == InitDownload /\ [][DlNext]_vars

\* the events the server and the timer owe the call once it was started:
\* every command is answered, every stream is delivered, every fetch ends
\* and the timer fires.  The failures (connection error, openBox error,
\* fetch error) are owed to nobody, and nothing is assumed about when the
\* end of the body stream is handled: the fetch ends with or without it.
DlProgress ==
    \/ DlReady
    \/ DlOpenBox
    \/ \E struct \in DlStructs \cup {<<>>} : DlAttributes(struct)
    \/ DlStructEnd
    \/ \E in \in DlInputs : DlFullMessage(in)
    \/ \E half \in BOOLEAN : DlData(half)
    \/ DlFullEnd
    \/ DlTimeout

SpecDownloadFair == SpecDownload /\ WF_vars(DlProgress)

InitParse == PaInit /\ Idle("parse")

SpecParse == InitParse /\ [][PaNext]_vars

InitList == LsInit /\ Idle("list")

SpecList == InitList /\ [][LsNext]_vars

InitVariants == VaInit /\ Idle("variants")

SpecVariants == InitVariants /\ [][VaNext]_vars

InitAttachment == PrInit /\ Idle("attachment")

SpecAttachment == InitAttachment /\ [][PrNext]_vars

InitConnect == CoInit /\ Idle("connect")

SpecConnect == InitConnect /\ [][CoNext]_vars

InitPdfParse == PpInit /\ Idle("pdfParse")

SpecPdfParse == InitPdfParse /\ [][PpNext]_vars

InitMailbox == MbInit /\ Idle("mailbox")

SpecMailbox == InitMailbox /\ [][MbNext]_vars

-----------------------------------------------------------------------------
(* Claims about the attachment index (SpecIndex) *)

\* C1: for every descriptor that listEmails produces, findAttachment over
\* the same structure, given the ordinal parsed from the descriptor's id,
\* selects a part, and the part-path it computes equals the descriptor's
\* partId; the uid parsed from the id is the message's uid.
C1_ListThenLocateIsIdentity ==
    ixPc = "located" =>
        /\ ixFound.attachmentFound
        /\ ixFound.targetPartId = ixAtts[ixPick].partId
        /\ ParseAttachmentId(ixAtts[ixPick].id).targetUid = ixUid

\* a nested part that is not the first attachment of its message was located
C1_Witness ==
    /\ ixPc = "located"
    /\ ixPick >= 2
    /\ Len(ixAtts[ixPick].partId) >= 2
    /\ ixFound.targetPartId = ixAtts[ixPick].partId

-----------------------------------------------------------------------------
(* Claims about the candidates collection (SpecStore) *)

\* call c is at its write step and the query found document `found`
UpdateStep(c) ==
    /\ stCalls[c].pc = "write"
    /\ stCalls[c].found # 0
    /\ stCalls'[c].pc = "returned"

UniqueEmail ==
    \A i, j \in 1..Len(stStore) :
        (/\ i # j
         /\ "email" \in DOMAIN stStore[i]
         /\ "email" \in DOMAIN stStore[j]
         /\ Truthy(stStore[i].email))
        => stStore[i].email # stStore[j].email

\* C3: after any sequence of non-overlapping addCandidateFromEmail calls
\* the collection holds at most one record per non-empty email address, and
\* a call whose email equals that of an existing record returns updated for
\* that record and leaves the number of records unchanged.
C3_OneRecordPerEmail ==
    /\ []UniqueEmail
    /\ [][\A c \in CallIds :
              (/\ stCalls[c].pc = "write"
               /\ stCalls'[c].pc = "returned"
               /\ Truthy(stCalls[c].candidateData.email)
               /\ FindByEmail(stStore, stCalls[c].candidateData.email) # {})
              => /\ Len(stStore') = Len(stStore)
                 /\ stCalls'[c].updated
                 /\ ~stCalls'[c].created
                 /\ stStore[stCalls'[c].id].email
                        = stCalls[c].candidateData.email]_vars

\* two imports of one address have returned, the second as an update
C3_Witness ==
    /\ Len(stStore) = 1
    /\ stStarted = 2
    /\ stCalls[1].pc = "returned" /\ stCalls[1].created
    /\ stCalls[2].pc = "returned" /\ stCalls[2].updated
    /\ stCalls[2].candidateData.email = stStore[1].email

\* C4: when addCandidateFromEmail finds an existing record with the same
\* email, every field already present in the stored record keeps its stored
\* value; only fields that were absent are added.
C4_ExistingFieldsKept ==
    [][\A c \in CallIds :
          UpdateStep(c) =>
              LET found == stCalls[c].found
              IN  \A f \in DOMAIN stStore[found] :
                      stStore'[found][f] = stStore[found][f]]_vars

HistoryOf(doc) == IF "history" \in DOMAIN doc THEN doc.history ELSE <<>>

\* C5: each re-import of an address already in the store lengthens the
\* stored record's history by exactly one entry and keeps all earlier
\* entries.
C5_HistoryAppendOnly ==
    [][\A c \in CallIds :
          UpdateStep(c) =>
              LET found == stCalls[c].found
                  old == HistoryOf(stStore[found])
                  new == HistoryOf(stStore'[found])
              IN  /\ Len(new) = Len(old) + 1
                  /\ SubSeq(new, 1, Len(old)) = old]_vars

\* C14: every candidateData that is passed to addCandidateFromEmail has a
\* non-empty email (a placeholder when the sender has no address), and no
\* two records of the collection share an email value.
C14_EveryRecordHasEmail ==
    /\ \A c \in CallIds :
           stCalls[c].pc # "idle" => Truthy(stCalls[c].candidateData.email)
    /\ \A i, j \in 1..Len(stStore) :
           i # j => stStore[i].email # stStore[j].email

\* C15: an update of the record of an address by a later import keeps a
\* stored hasResume, sets hasResume to true when the import carries a
\* resume attachment, and leaves source as the first import wrote it; a
\* record created by an import without attachments has no hasResume.
C15_HasResumeSticksSourceKept ==
    [][\A c \in CallIds :
          /\ UpdateStep(c) =>
                 LET found == stCalls[c].found
                     data == stCalls[c].candidateData
                 IN  /\ "hasResume" \in DOMAIN stStore[found] =>
                            /\ "hasResume" \in DOMAIN stStore'[found]
                            /\ stStore'[found].hasResume
                     /\ "hasResumeAttachment" \in DOMAIN data =>
                            /\ "hasResume" \in DOMAIN stStore'[found]
                            /\ stStore'[found].hasResume
                     /\ stStore'[found].source = stStore[found].source
          /\ (stCalls[c].pc = "write" /\ stCalls[c].found = 0
                  /\ stCalls'[c].pc = "returned") =>
                 ("hasResume" \in DOMAIN stStore'[Len(stStore')]
                      <=> "hasResume" \in DOMAIN stCalls[c].candidateData)
       ]_vars

\* one address imported first with a resume and then without one: one
\* record, hasResume still true, source as first written
C15_Witness ==
    /\ Len(stStore) = 1
    /\ stCalls[1].pc = "returned" /\ stCalls[1].created
    /\ stCalls[2].pc = "returned" /\ stCalls[2].updated
    /\ "hasResume" \in DOMAIN stCalls[1].candidateData
    /\ "hasResume" \notin DOMAIN stCalls[2].candidateData
    /\ stStore[1].hasResume
    /\ stStore[1].source = "email_import"

-----------------------------------------------------------------------------
(* Claims about processEmails (SpecBatch) *)

\* the body handler of message m was started and has not finished
InFlight(m) == baMsgs[m].pc \in {"parsing", "attachments", "storing"}

\* C2: when processEmails has resolved, every body handler started in the
\* batch has finished, and the processed count and the candidates it
\* resolved with are those of all messages the batch processes and stores.
C2_ResolveIsJoinPoint ==
    baOutcome.kind = "resolved" =>
        /\ \A m \in MsgIds : ~InFlight(m)
        /\ baOutcome.processed = Len(baProcessed)
        /\ baOutcome.candidates = baCandidates

\* C11: a failure while parsing, enriching or storing one message does not
\* reject the batch, and the batch resolves with the processed count and the
\* candidates of the messages that were processed and imported: once the
\* fetch has ended with a failed message in the batch, a rejection can only
\* come from the connection, and when every handler has finished the value
\* resolved with is the count of the parsed messages and the stored
\* candidates.
C11_FailureKeepsPartialResults ==
    (/\ \E m \in MsgIds : baMsgs[m].pc = "failed"
     /\ baTempDir \in {"removed", "removalFailed"}) =>
        /\ baOutcome.kind = "rejected" => baOutcome.error = "connection"
        /\ (baOutcome.kind = "resolved" /\ \A m \in MsgIds : ~InFlight(m)) =>
               /\ baOutcome.processed = Len(baProcessed)
               /\ baOutcome.candidates = baCandidates

\* the header-derived identity of a candidate
Identity(candidateData) ==
    [f \in {"name", "email", "source", "history"} |->
        IF f \in DOMAIN candidateData THEN candidateData[f] ELSE Undefined]

\* C12: a turn of the resume-attachment loop, failed or not, leaves the
\* handler in the loop or at the store call, leaves name, email, source and
\* history of candidateData as parseCandidateFromEmail built them and does
\* not settle the batch; the candidate pushed after the store call carries
\* that identity.
C12_AttachmentFailureKeepsIdentity ==
    [][\A m \in MsgIds :
          /\ (baMsgs[m].pc = "attachments" /\ baMsgs'[m] # baMsgs[m]) =>
                 /\ baMsgs'[m].pc \in {"attachments", "storing"}
                 /\ Identity(baMsgs'[m].candidateData)
                        = Identity(baMsgs[m].candidateData)
                 /\ baMsgs'[m].candidateData.source = "email_import"
                 /\ baOutcome' = baOutcome
          /\ (baMsgs[m].pc = "storing" /\ baMsgs'[m].pc = "done") =>
                 /\ Len(baCandidates') = Len(baCandidates) + 1
                 /\ Identity(baCandidates'[Len(baCandidates')])
                        = Identity(baMsgs[m].candidateData)]_vars

\* a message with a resume whose processing yielded none of the four
\* fields has been stored and pushed
C12_Witness ==
    \E m \in MsgIds :
        /\ baMsgs[m].pc = "done"
        /\ "hasResumeAttachment" \in DOMAIN baMsgs[m].candidateData
        /\ \/ "skills" \notin DOMAIN baMsgs[m].candidateData
           \/ baMsgs[m].candidateData.skills = ""
        /\ \E i \in 1..Len(baCandidates) :
               /\ baCandidates[i].id = m
               /\ baCandidates[i].name = "Ann"

-----------------------------------------------------------------------------
(* Claims about the extraction (SpecExtract) *)

\* C10: for every matched segment and every transfer encoding found in it,
\* the extracted content is valid base64 text and decodes to as many bytes
\* as the attached payload has (the accurate declared size).
C10_NormalizedIsBase64OfDeclaredSize ==
    (exPc = "done" /\ exContent # <<>>) =>
        /\ IsValidBase64(exContent)
        /\ DecodedLength(exContent) = Len(exInput.payload)

-----------------------------------------------------------------------------
(* Claims about downloadEmailAttachment (SpecDownload) *)

\* C6: downloadEmailAttachment never resolves with an attachment whose
\* content is empty; when the timer that settles the call finds that the
\* extraction has produced no attachment data, the promise is rejected, with
\* the extraction error unless the connection had failed before.
C6_NeverResolvesEmpty ==
    /\ dlOutcome.kind = "resolved" =>
           /\ ~dlOutcome.value.isNull
           /\ dlOutcome.value.content # <<>>
    /\ (dlTimer = "fired" /\ dlAttachmentData.isNull) =>
           /\ dlOutcome.kind = "rejected"
           /\ dlOutcome.error = ExtractionError \/ dlImap = "errored"

\* both methods ran on the full message, neither yielded content, and the
\* call was rejected with the extraction error
C6_Witness ==
    /\ dlPc = "bodyDone"
    /\ dlAttachmentData.isNull
    /\ dlTimer = "fired"
    /\ dlOutcome = Rejected(ExtractionError)

\* the id is exactly att-<digits>-<digits>
ExactForm(id) ==
    /\ Len(id) >= 7
    /\ SubSeq(id, 1, 4) = AttPrefix
    /\ \E q \in 6..(Len(id) - 1) :
           /\ id[q] = "-"
           /\ \A i \in (5..(q - 1)) \cup ((q + 1)..Len(id)) : IsDigit(id[i])

\* the uid and the ordinal an id of the exact form names
IdDash(id) == CHOOSE q \in 6..(Len(id) - 1) : id[q] = "-"

IdUid(id) == ParseInt(SubSeq(id, 5, IdDash(id) - 1))

IdOrdinal(id) == ParseInt(SubSeq(id, IdDash(id) + 1, Len(id)))

\* the number of attachment- or inline-disposed parts, as listEmails counts
DisposedCount(struct) == Len(ListAttachments(struct, MailboxUid, 1))

\* the attributes of the addressed message have arrived for a well-formed
\* id whose ordinal is 0 or exceeds the number of disposed parts
OrdinalOutOfRange ==
    /\ ExactForm(dlAttachmentId)
    /\ IdUid(dlAttachmentId) = MailboxUid
    /\ dlStruct # <<>>
    /\ \/ IdOrdinal(dlAttachmentId) = 0
       \/ IdOrdinal(dlAttachmentId) > DisposedCount(dlStruct)

\* C7: for a well-formed id whose ordinal is 0 or exceeds the number of
\* attachment/inline-disposed parts of the addressed message, the call is
\* rejected with the 'Attachment ... not found' error: it is never resolved,
\* never rejected with another error, and no body is requested.
C7_OutOfRangeOrdinalIsNotFound ==
    OrdinalOutOfRange =>
        /\ dlOutcome = Rejected(NotFoundError(dlAttachmentId))
        /\ \A i \in 1..Len(dlRequests) : ~dlRequests[i].hasBodies

\* att-7-2 and the like on a message that has attachments, after the
\* structure fetch has ended
C7_Witness ==
    /\ OrdinalOutOfRange
    /\ DisposedCount(dlStruct) >= 1
    /\ IdOrdinal(dlAttachmentId) > DisposedCount(dlStruct)
    /\ dlPc = "closed"

\* C8: an attachmentId that is not exactly of the form att-<uid>-<ordinal>
\* (extra leading or trailing characters included) is rejected with the
\* invalid-id error once the id has been looked at, and no message is
\* fetched for it.
C8_InexactIdIsInvalid ==
    ~ExactForm(dlAttachmentId) =>
        /\ dlRequests = <<>>
        /\ dlPc \notin {"connect", "openBox", "failed"} =>
               dlOutcome = Rejected(InvalidIdError)

-----------------------------------------------------------------------------
(* Claims about the resume parsing routes (SpecParse) *)

\* C16: the text that a route hands to parseResumeWithOpenAI, whichever
\* supported type it was extracted from, is not empty and not white space
\* only.
C16_NoEmptyTextHandedOn ==
    paPc = "openai" => Len(Trim(paText)) > 0

\* the library call gave a text that is non-empty after trimming
Succeeded(call) ==
    call.outcome.kind = "text" /\ Len(Trim(call.outcome.text)) > 0

\* C17: extractTextFromPDF invokes pdf-parse, pdf2json, pdfjs-dist in this
\* order, invokes nothing after a library whose text is non-empty after
\* trimming, and returns exactly when the library invoked last gave such a
\* text, with that text.
C17_FirstNonEmptyStrategyWins ==
    (paPc # "request" /\ paReq.fileExtension = ".pdf") =>
        LET n == Len(paCalls)
        IN  /\ n <= 3
            /\ \A i \in 1..n :
                   paCalls[i].library
                       = <<"pdf-parse", "pdf2json", "pdfjs-dist">>[i]
            /\ \A i \in 1..(n - 1) : ~Succeeded(paCalls[i])
            /\ paChain.kind = "returned" <=> (n > 0 /\ Succeeded(paCalls[n]))
            /\ paChain.kind = "returned" =>
                   paChain.text = paCalls[n].outcome.text

\* pdf-parse gave white space, pdf2json threw, pdfjs-dist gave the text
\* that was returned
C17_Witness ==
    /\ paChain.kind = "returned"
    /\ Len(paCalls) = 3
    /\ paCalls[1].outcome = [kind |-> "text", text |-> <<" ">>]
    /\ paCalls[2].outcome.kind = "threw"
    /\ paChain.text = <<" ", "x", "LF">>

\* C18: the error that extractTextFromPDF throws after the last strategy
\* lists one reason per strategy, in the order tried, also for a strategy
\* that returned an empty text without throwing.
C18_OneReasonPerStrategy ==
    paChain.kind = "threw" =>
        /\ Len(paChain.errors) = Len(Strategies)
        /\ \A i \in 1..Len(paChain.errors) :
               paChain.errors[i].strategy = Strategies[i]

\* C19: an upload whose extension the route does not support is answered
\* with status 400 and 'Unsupported file type', and no extraction library
\* is invoked for it.
C19_UnsupportedExtensionAnswer ==
    (/\ paPc = "done"
     /\ paReq.fileExtension \notin {".pdf", ".doc", ".docx"}
     /\ ~(paReq.route = "/parse-attachment" /\ paReq.fileExtension = ".txt"))
        => /\ paCalls = <<>>
           /\ paRes.status = 400
           /\ paRes.error = "Unsupported file type"

-----------------------------------------------------------------------------
(* Claims about message identity (SpecMailbox) *)

\* C20: the fetch of a later processEmails or downloadEmailAttachment call
\* that is given a listed email emits that email's message, the one with
\* the UID it was listed with, if the mailbox still holds it, and no other
\* message.
C20_IdDesignatesSameMessage ==
    mbPc \in {"processed", "downloaded"} =>
        LET listed == mbEmails[mbPick].uid
        IN  /\ \A i \in 1..Len(mbFetched) : mbFetched[i].uid = listed
            /\ (\E i \in 1..Len(mbBox) : mbBox[i] = listed) =>
                   Len(mbFetched) = 1

-----------------------------------------------------------------------------
(* Claims about listEmails (SpecList) *)

\* the structure has a leaf part whose disposition is attachment or inline
HasDisposedPart(struct) ==
    \E i \in 1..Len(Leaves(struct)) : IsAttachmentDisposed(Leaves(struct)[i])

\* C21: listEmails resolves with exactly the messages that the search
\* matched, whose Subject is job-related if filters.jobRelated is set, and
\* which have an attachment or inline part if filters.withAttachments is
\* set.
C21_ReturnedIffMatchedAndFiltered ==
    lsOutcome.kind = "resolved" =>
        \A k \in 1..Len(lsBox) :
            (\E i \in 1..Len(lsOutcome.value) : lsOutcome.value[i] = k)
                <=> /\ lsBox[k].matched
                    /\ lsFilters.jobRelated =>
                           isJobRelatedEmail(lsBox[k].msg.subject)
                    /\ lsFilters.withAttachments =>
                           HasDisposedPart(lsBox[k].msg.struct)

\* the messages of emails are in the order in which the fetch emitted them
InStreamOrder(emails) ==
    \A i, j \in 1..Len(emails) :
        i < j =>
            \E a, b \in 1..Len(lsResults) :
                a < b /\ lsResults[a] = emails[i] /\ lsResults[b] = emails[j]

\* C23: the emails array, while it is built and as it is resolved, holds the
\* messages in the order in which the fetch emitted them, whenever their
\* header streams end.
C23_EmailsInStreamOrder ==
    /\ InStreamOrder(lsEmails)
    /\ lsOutcome.kind = "resolved" => InStreamOrder(lsOutcome.value)

\* two messages are returned and the header stream of the first had not
\* ended when the second was pushed
C23_Witness ==
    /\ lsOutcome.kind = "resolved"
    /\ lsOutcome.value = <<1, 2>>
    /\ lsMsgs[1].body = "open"

\* C24: once the mailbox open, the search or the fetch has reported an
\* error, the promise is rejected and stays rejected, also after the end
\* event of the fetch.
C24_ErrorNeverResolvesPartial ==
    lsPc \in {"fetchErrored", "failed"} => lsOutcome.kind = "rejected"

\* the fetch failed after a message was pushed and has emitted end since
C24_Witness ==
    /\ lsPc = "failed"
    /\ lsOutcome = Rejected("fetch")
    /\ Len(lsEmails) > 0

\* the descriptors listEmails recorded so far
ListedDescriptors ==
    UNION {{lsMsgs[k].email.attachments[i] :
               i \in 1..Len(lsMsgs[k].email.attachments)} :
           k \in {n \in 1..Len(lsBox) : lsMsgs[n].attrs}}

\* C28: a descriptor is marked isResume exactly when its name, in lower
\* case, ends in a dot and one of pdf, doc, docx, rtf, txt, odt.
C28_ResumeLikelyByExtension ==
    \A d \in ListedDescriptors :
        d.isResume <=>
            \E ext \in {<<"p", "d", "f">>, <<"d", "o", "c">>,
                         <<"d", "o", "c", "x">>, <<"r", "t", "f">>,
                         <<"t", "x", "t">>, <<"o", "d", "t">>} :
                LET name == toLowerCase(d.name)
                    n == Len(name)
                IN  /\ n > Len(ext)
                    /\ SubSeq(name, n - Len(ext), n) = <<".">> \o ext

\* cv.PDF was listed as resume-likely, and a name without extension as not
C28_Witness ==
    /\ \E d \in ListedDescriptors : d.name = CvPdf /\ d.isResume
    /\ \E d \in ListedDescriptors : d.name = <<"p", "d", "f">> /\ ~d.isResume

-----------------------------------------------------------------------------
(* Claims about the two listEmails (SpecVariants) *)

\* C22: the date filter none gives the search ALL, today SINCE the date of
\* now, week SINCE the date seven days before now and month SINCE the date
\* one month before now; and with the filter today no message is returned
\* that was received on a day before today, by the clock of the host.
C22_DateFilterTranslation ==
    vaPc # "search" =>
        LET LocalDay(t) == (t + vaIn.tz) \div 24
            ago == CASE vaIn.dateFilter = "today" -> 0
                     [] vaIn.dateFilter = "week" -> 7
                     [] vaIn.dateFilter = "month" -> 30
                     [] OTHER -> 0
        IN  /\ ~vaCriteria.unseen
            /\ vaCriteria.since =
                   IF vaIn.dateFilter = "none" THEN <<>>
                   ELSE <<(vaIn.now - ago * 24) \div 24>>
            /\ (vaIn.dateFilter = "today" /\ vaReturned) =>
                   LocalDay(vaIn.now - vaIn.age) >= LocalDay(vaIn.now)

\* C25: the attachments of a message hold one descriptor per leaf part
\* whose disposition is attachment or inline, in the order of the parts,
\* named as the part declares or unknown-<n> for the n-th descriptor when
\* the part declares no name.
C25_OneDescriptorPerDisposedPart ==
    vaPc = "done" =>
        LET disposed == SelectSeq(Leaves(vaIn.struct), IsAttachmentDisposed)
        IN  /\ Len(vaAtts) = Len(disposed)
            /\ \A n \in 1..Len(disposed) :
                   vaAtts[n].name =
                       IF disposed[n].name # NoName THEN disposed[n].name
                       ELSE <<"u", "n", "k", "n", "o", "w", "n", "-">>
                                \o ToDigits(n)

-----------------------------------------------------------------------------
(* Claims about processAttachment (SpecAttachment) *)

\* C26: processAttachment never throws; a call that returned has
\* importMethod "ai_parser" exactly when the parse endpoint answered with
\* success, and "basic_extraction" after every failure (unsupported type,
\* temporary-file error, request error, unsuccessful answer).
C26_NeverThrowsFallsBack ==
    /\ prPc # "threw"
    /\ prPc = "returned" =>
           /\ prResult.importMethod \in {"ai_parser", "basic_extraction"}
           /\ prResult.importMethod = "ai_parser" <=>
                  (prResponse # <<>> /\ prResponse.kind = "answered"
                                     /\ prResponse.success)
           /\ prResult.originalFilename = prAttachment.name

\* the endpoint answered without success, the cleanup failed as well, and
\* the call returned the basic record
C26_Witness ==
    /\ prPc = "returned"
    /\ prResponse # <<>>
    /\ prResponse.kind = "answered"
    /\ ~prResponse.success
    /\ prTemp = "left"
    /\ prResult.importMethod = "basic_extraction"

-----------------------------------------------------------------------------
(* Claims about POST /connect (SpecConnect) *)

\* C27: a connection for gmail or outlook is made to the preset host and
\* port whatever server and port were supplied, and for provider "other" no
\* connection is made when the server or the port was not supplied.
C27_PresetsOtherNeedsBoth ==
    coConfig # <<>> =>
        /\ coBody.provider = "gmail" =>
               coConfig = [host |-> "imap.gmail.com", port |-> 993]
        /\ coBody.provider = "outlook" =>
               coConfig = [host |-> "outlook.office365.com", port |-> 993]
        /\ coBody.provider = "other" =>
               Truthy(coBody.server) /\ coBody.port # NoPort

-----------------------------------------------------------------------------
(* Claims about the sessions of the mailbox operations *)

\* C29: once the promise of a mailbox operation is settled, by whatever
\* path, the session the operation created has been ended (stated for
\* listEmails, over SpecList).
C29_SettledMeansSessionEnded ==
    lsOutcome.kind # "pending" => lsImap = "ended"

\* C30: every downloadEmailAttachment call eventually settles its promise
\* with its session over, whatever the server does once the mailbox is open
\* (over SpecDownloadFair).
C30_DownloadSettlesAndEnds ==
    <>(dlOutcome.kind # "pending" /\ dlImap \in {"ended", "errored"})

-----------------------------------------------------------------------------
(* Claims about the timer of downloadEmailAttachment (SpecDownload) *)

-----------------------------------------------------------------------------
(* Claims about concurrent addCandidateFromEmail calls                     *)
(* (SpecStoreConcurrent)                                                   *)

\* C32: when two calls carrying the same email address have both returned,
\* however their steps interleaved, the store holds exactly one record with
\* that address.
C32_OneRecordUnderConcurrency ==
    \A c1, c2 \in CallIds :
        (/\ c1 # c2
         /\ stCalls[c1].pc = "returned"
         /\ stCalls[c2].pc = "returned"
         /\ Truthy(stCalls[c1].candidateData.email)
         /\ stCalls[c1].candidateData.email = stCalls[c2].candidateData.email)
            => Cardinality(FindByEmail(stStore,
                                       stCalls[c1].candidateData.email)) = 1

-----------------------------------------------------------------------------
(* Claims about the events of one message in listEmails (SpecList) *)

-----------------------------------------------------------------------------
(* Claims about messages with several attachments (SpecExtractSeveral) *)

\* C34: the content extracted for the attachment asked for, the second of
\* two attachments with different bodies, is the base64 text of its own
\* body.
C34_ContentOfTheSelectedPart ==
    (exPc = "done" /\ exContent # <<>>) =>
        exContent = Base64Encode(RawBytes(exInput.payload))

-----------------------------------------------------------------------------
(* Claims about the summaries listEmails returns (SpecList) *)

\* C35: every message of the list the call resolved with, once its header
\* stream has ended, has from (name and address), subject and receivedAt.
C35_SummariesAreComplete ==
    lsOutcome.kind = "resolved" =>
        \A i \in 1..Len(lsOutcome.value) :
            LET k == lsOutcome.value[i]
            IN  lsMsgs[k].body = "ended" =>
                    {"from", "subject", "receivedAt"}
                        \subseteq DOMAIN lsMsgs[k].email

-----------------------------------------------------------------------------
(* Claims about the counts of processEmails (SpecBatch) *)

-----------------------------------------------------------------------------
(* Claims about messages with several resume attachments                   *)
(* (SpecBatchSeveral)                                                      *)

\* C37: once candidateData has the skills, experience, education and
\* resumeText obtained from an attachment, no later step replaces any of
\* them by an empty value.
C37_EnrichmentKept ==
    [][\A m \in MsgIds :
           \A f \in {"skills", "experience", "education", "resumeText"} :
               (/\ f \in DOMAIN baMsgs[m].candidateData
                /\ baMsgs[m].candidateData[f] = "parsed")
                   => baMsgs'[m].candidateData[f] = "parsed"]_vars

-----------------------------------------------------------------------------
(* Claims about the temporary files of processAttachment (SpecAttachment) *)

\* C38: when processAttachment has returned, the temporary directory it
\* created and the file in it are gone, unless the file system failed to
\* remove them.
C38_TempRemovedOnEveryExit ==
    prPc = "returned" => prTemp \in {"none", "removed", "left"}

-----------------------------------------------------------------------------
(* Claims about extractTextWithPdfParse (SpecPdfParse) *)

\* the message mentions XRef, cross-reference or FormatError
MentionsStructure(message) ==
    \E i \in 1..Len(message) :
        message[i] \in {"XRef", "cross-reference", "FormatError"}

\* C39: pdfParse is called with the lenient options exactly when the call
\* with the default options failed with a message that mentions XRef,
\* cross-reference or FormatError; any other failure is thrown as it is
\* after the one call; a lenient call that gives an empty text ends in a
\* failure, and whatever a lenient call returns is not empty.
C39_LenientRetryOnlyForStructure ==
    LET lenient == ppCalls = <<"default", "lenient">>
        over == ppPc \in {"returned", "threw"}
    IN  /\ Len(ppCalls) = 2 => lenient
        /\ lenient => /\ ~ppFile.default.ok
                       /\ MentionsStructure(ppFile.default.message)
        /\ (/\ over
             /\ ppFile.readable
             /\ ~ppFile.default.ok
             /\ MentionsStructure(ppFile.default.message)) => lenient
        /\ (/\ over
             /\ ppFile.readable
             /\ ~ppFile.default.ok
             /\ ~MentionsStructure(ppFile.default.message))
                => /\ ppPc = "threw"
                   /\ ppResult = ppFile.default.message
                   /\ ppCalls = <<"default">>
        /\ (lenient /\ ppPc = "returned") => Len(ppResult) > 0
        /\ (/\ lenient
             /\ ppFile.lenient.ok
             /\ ppFile.lenient.text = <<>>) => ppPc = "threw"

\* the default call failed on the cross-reference table, the lenient call
\* gave an empty text, and the call threw
C39_Witness ==
    /\ ppPc = "threw"
    /\ ppCalls = <<"default", "lenient">>
    /\ ppFile.lenient.ok
    /\ ppFile.lenient.text = <<>>

=============================================================================
